---------------------------- MODULE Spec2Model ----------------------------
(***************************************************************************)
(* cos-tool: label-matcher injection into PromQL / LogQL expressions.      *)
(*                                                                         *)
(* A query text is a sequence of lexemes.  A lexeme is a record            *)
(* [k, s, n]: k is its class, s its text (or printf format), n its number. *)
(* Every regular expression and every strings.ReplaceAll of the program    *)
(* starts and ends on lexeme borders for the texts used here (variables    *)
(* are written in the braced form, so `\w+` never runs across the end of   *)
(* a variable), hence matching on lexemes is matching on bytes.            *)
(***************************************************************************)
EXTENDS Integers, Sequences, FiniteSets, TLC

(***************************************************************************)
(* Lexemes                                                                 *)
(***************************************************************************)
W(s) == [k |-> "w", s |-> s, n |-> 0]
P(s) == [k |-> "p", s |-> s, n |-> 0]
V(s) == [k |-> "var", s |-> s, n |-> 0]
Num(n) == [k |-> "num", s |-> "", n |-> n]
Dur(n, u) == [k |-> "dur", s |-> u, n |-> n]
\* fmt.Sprintf(format, counter) for the three formats of the program: "%d"
\* gives the digits of a number, "%ds" those of a duration in seconds, and
\* "__v%d__" a piece of an identifier
Sprintf(format, counter) ==
    CASE format = "%d" -> Num(counter)
      [] format = "%ds" -> Dur(counter, "s")
      [] OTHER -> [k |-> "ph", s |-> format, n |-> counter]
Sp == [k |-> "ws", s |-> " ", n |-> 0]
Nl == [k |-> "ws", s |-> "\n", n |-> 0]
Quote == P("\"")

\* \w : letters, digits and underscore
IsWordTok(t) == t.k \in {"w", "num", "dur", "ph"}
\* \s
IsSpaceTok(t) == t.k = "ws"
\* varPattern / logQLVarPattern: \$(?:\w+|\{[^}]+\})
varPattern(t) == t.k = "var"

(***************************************************************************)
(* Sequence helpers                                                        *)
(***************************************************************************)
Range(f) == {f[x] : x \in DOMAIN f}

\* a local variable that is read in many places: `x := value` followed by
\* Body, which reads x
Bind(value, Body(_)) == Body(value)

EmptyMap == [x \in {} |-> x]

\* s[a..b], empty when a > b
Slice(s, a, b) == [i \in 1..(b - a + 1) |-> s[a + i - 1]]

HasAt(s, pat, i) ==
    /\ i >= 1
    /\ i + Len(pat) - 1 <= Len(s)
    /\ \A j \in 1..Len(pat) : s[i + j - 1] = pat[j]

\* strings.Contains
Contains(s, pat) == \E i \in 1..Len(s) : HasAt(s, pat, i)

Min(S) == CHOOSE x \in S : \A y \in S : x <= y

\* the least position from i on that is in S (0: none)
FirstFrom(S, i) == IF \E j \in S : j >= i THEN Min({j \in S : j >= i}) ELSE 0

\* strings.Index from position i on (0: none)
IndexFrom(s, pat, i) == FirstFrom({j \in 1..Len(s) : HasAt(s, pat, j)}, i)

\* the loop of strings.Replace: copy up to the next occurrence, write new
RECURSIVE ReplaceAllFrom(_, _, _, _)
ReplaceAllFrom(s, old, new, i) ==
    LET j == IndexFrom(s, old, i)
    IN  IF j = 0 THEN Slice(s, i, Len(s))
        ELSE Slice(s, i, j - 1) \o new \o ReplaceAllFrom(s, old, new, j + Len(old))

\* strings.ReplaceAll with a non-empty old: leftmost, non-overlapping
ReplaceAll(s, old, new) == ReplaceAllFrom(s, old, new, 1)

\* index of the last lexeme before i that is not white space (0: none)
RECURSIVE SkipSpaceLeft(_, _)
SkipSpaceLeft(s, i) ==
    IF i = 0 THEN 0
    ELSE IF IsSpaceTok(s[i]) THEN SkipSpaceLeft(s, i - 1) ELSE i

\* index of the first lexeme from i on that is not white space (Len+1: none)
RECURSIVE SkipSpaceRight(_, _)
SkipSpaceRight(s, i) ==
    IF i > Len(s) THEN i
    ELSE IF IsSpaceTok(s[i]) THEN SkipSpaceRight(s, i + 1) ELSE i

\* first index of the maximal run of \w lexemes that ends at i
RECURSIVE WordRunStart(_, _)
WordRunStart(s, i) ==
    IF i > 1 /\ IsWordTok(s[i - 1]) THEN WordRunStart(s, i - 1) ELSE i

\* index just after the maximal run of \w lexemes that starts at i
RECURSIVE WordRunEnd(_, _)
WordRunEnd(s, i) ==
    IF i <= Len(s) /\ IsWordTok(s[i]) THEN WordRunEnd(s, i + 1) ELSE i

(***************************************************************************)
(* PromQL: checkUnsupportedVariables                                        *)
(***************************************************************************)
\* (?:^|[,\(])\s* in front of position i
AfterStartCommaParen(s, i) ==
    LET j == SkipSpaceLeft(s, i - 1)
    IN  j = 0 \/ s[j] \in {P(","), P("(")}

\* (?:^|[,\(])\s*VAR\s*\(
functionNamePattern(s) ==
    \E i \in 1..Len(s) :
        /\ varPattern(s[i])
        /\ AfterStartCommaParen(s, i)
        /\ LET j == SkipSpaceRight(s, i + 1)
           IN  j <= Len(s) /\ s[j] = P("(")

\* \b(?:by|without)\s*\([^)]*VAR
groupingLabelPattern(s) ==
    \E i \in 1..Len(s) :
        /\ s[i] \in {W("by"), W("without")}
        /\ (i = 1 \/ ~IsWordTok(s[i - 1]))
        /\ LET j == SkipSpaceRight(s, i + 1)
           IN  /\ j <= Len(s)
               /\ s[j] = P("(")
               /\ \E v \in (j + 1)..Len(s) :
                      /\ varPattern(s[v])
                      /\ \A m \in (j + 1)..(v - 1) : s[m] # P(")")

\* (?:^|[,\(])\s*VAR\{
metricNameStartPattern(s) ==
    \E i \in 1..Len(s) :
        /\ varPattern(s[i])
        /\ AfterStartCommaParen(s, i)
        /\ i < Len(s)
        /\ s[i + 1] = P("{")

ErrNone == "nil"
ErrFunctionName == "variables in function name positions are not supported"
ErrGrouping == "variables in grouping (by/without) positions are not supported"
ErrMetricStart == "variables at the start of metric names are not supported"
ErrParse == "parse error"

\* a check without the function-name pattern
checkWithoutFunctionNames(expr) ==
    IF groupingLabelPattern(expr) THEN ErrGrouping
    ELSE IF metricNameStartPattern(expr) THEN ErrMetricStart
    ELSE ErrNone

\* a check that looks at the grouping clauses first
checkGroupingFirst(expr) ==
    IF groupingLabelPattern(expr) THEN ErrGrouping
    ELSE IF functionNamePattern(expr) THEN ErrFunctionName
    ELSE IF metricNameStartPattern(expr) THEN ErrMetricStart
    ELSE ErrNone

checkUnsupportedVariables(expr) ==
    IF functionNamePattern(expr) THEN ErrFunctionName
    ELSE IF groupingLabelPattern(expr) THEN ErrGrouping
    ELSE IF metricNameStartPattern(expr) THEN ErrMetricStart
    ELSE ErrNone

(***************************************************************************)
(* Placeholder table                                                       *)
(***************************************************************************)
PlaceholderBase == 99990000

\* the three maps/counters the closures of one Encode call share
NewTable ==
    [replacements |-> EmptyMap, variableToPlaceholder |-> EmptyMap,
     quotedPlaceholders |-> {}, counter |-> PlaceholderBase]

\* a closure that allocates a placeholder at every call
getPlaceholderFresh(tab, variable, format) ==
    LET placeholder == Sprintf(format, tab.counter)
    IN  [ph |-> placeholder,
         tab |-> [tab EXCEPT
             !.variableToPlaceholder =
                 [v \in DOMAIN @ \cup {variable} |->
                     IF v = variable THEN placeholder ELSE @[v]],
             !.replacements = @ @@ (placeholder :> variable),
             !.counter = @ + 1]]

\* getPlaceholder closure: result [ph, tab]
getPlaceholder(tab, variable, format) ==
    IF variable \in DOMAIN tab.variableToPlaceholder
    THEN [ph |-> tab.variableToPlaceholder[variable], tab |-> tab]
    ELSE LET placeholder == Sprintf(format, tab.counter)
         IN  [ph |-> placeholder,
              tab |-> [tab EXCEPT
                  !.variableToPlaceholder = @ @@ (variable :> placeholder),
                  !.replacements = @ @@ (placeholder :> variable),
                  !.counter = @ + 1]]

(***************************************************************************)
(* PromQL Encode                                                           *)
(***************************************************************************)
\* positions v of a variable matched by (\w+)(VAR)(\w*)\{
MetricNameMatches(s) ==
    {v \in 1..Len(s) :
        /\ varPattern(s[v])
        /\ v > 1
        /\ IsWordTok(s[v - 1])
        /\ LET e == WordRunEnd(s, v + 1)
           IN  e <= Len(s) /\ s[e] = P("{")}

\* the loop of replaceMetricNameVariables: leftmost match first
RECURSIVE replaceMetricNameVariables(_, _)
replaceMetricNameVariables(query, tab) ==
    Bind(MetricNameMatches(query), LAMBDA matches :
        IF matches = {} THEN [text |-> query, tab |-> tab]
        ELSE Bind(Min(matches), LAMBDA v :
             Bind(getPlaceholder(tab, query[v], "__v%d__"), LAMBDA g :
                 replaceMetricNameVariables([query EXCEPT ![v] = g.ph], g.tab))))

\* positions where \[(VAR)\] matches
RangeDurationMatches(query) ==
    {i \in 1..Len(query) :
        /\ query[i] = P("[")
        /\ i + 2 <= Len(query)
        /\ varPattern(query[i + 1])
        /\ query[i + 2] = P("]")}

\* ReplaceAllStringFunc over \[(VAR)\]: the text between two matches is
\* copied, a match is replaced by what the callback returns
RECURSIVE replaceDurationVariablesFrom(_, _, _, _)
replaceDurationVariablesFrom(query, i, tab, format) ==
    LET j == FirstFrom(RangeDurationMatches(query), i)
        g == getPlaceholder(tab, query[j + 1], format)
        r == replaceDurationVariablesFrom(query, j + 3, g.tab, format)
    IN  IF j = 0 THEN [text |-> Slice(query, i, Len(query)), tab |-> tab]
        ELSE [text |-> Slice(query, i, j - 1) \o <<P("["), g.ph, P("]")>> \o r.text,
              tab |-> r.tab]

replaceDurationVariables(query, tab) ==
    replaceDurationVariablesFrom(query, 1, tab, "%d")

\* ReplaceAllStringFunc over VAR
RECURSIVE replaceValueVariablesFrom(_, _, _)
replaceValueVariablesFrom(query, i, tab) ==
    LET j == FirstFrom({v \in 1..Len(query) : varPattern(query[v])}, i)
        g == getPlaceholder(tab, query[j], "%d")
        r == replaceValueVariablesFrom(query, j + 1, g.tab)
    IN  IF j = 0 THEN [text |-> Slice(query, i, Len(query)), tab |-> tab]
        ELSE [text |-> Slice(query, i, j - 1) \o <<g.ph>> \o r.text, tab |-> r.tab]

replaceValueVariables(query, tab) == replaceValueVariablesFrom(query, 1, tab)

\* result [text, tab]; the program returns (text, tab.replacements)
replaceGrafanaVariablesPromQL(query) ==
    Bind(replaceMetricNameVariables(query, NewTable), LAMBDA r1 :
    Bind(replaceDurationVariables(r1.text, r1.tab), LAMBDA r2 :
        replaceValueVariables(r2.text, r2.tab)))

(***************************************************************************)
(* PromQL Decode                                                           *)
(***************************************************************************)
SecondsPerMinute == 60
SecondsPerHour == 3600
SecondsPerDay == 86400
SecondsPerWeek == 604800
SecondsPerYear == 31536000

\* one step f(unit, mult, exact) of model.Duration.String()
DurationUnit(acc, unit, mult, exact) ==
    IF (exact /\ acc.left % mult # 0) \/ acc.left \div mult = 0 THEN acc
    ELSE [out |-> Append(acc.out, Dur(acc.left \div mult, unit)),
          left |-> acc.left % mult]

\* model.Duration(seconds * time.Second).String(), e.g. 99990000 -> 1157d7h
ModelDurationString(seconds) ==
    IF seconds = 0 THEN <<Dur(0, "s")>>
    ELSE LET a0 == [out |-> <<>>, left |-> seconds]
             a1 == DurationUnit(a0, "y", SecondsPerYear, TRUE)
             a2 == DurationUnit(a1, "w", SecondsPerWeek, TRUE)
             a3 == DurationUnit(a2, "d", SecondsPerDay, FALSE)
             a4 == DurationUnit(a3, "h", SecondsPerHour, FALSE)
             a5 == DurationUnit(a4, "m", SecondsPerMinute, FALSE)
             a6 == DurationUnit(a5, "s", 1, FALSE)
         IN  a6.out

\* fmt.Sscanf(placeholder, "%d", &counter) succeeds
ScansAsInt(placeholder) == placeholder.k \in {"num", "dur"}

\* normalized duration -> original variable; the keys are distinct, so the
\* iteration order over replacements does not show in the result
buildDurationMap(replacements) ==
    Bind({ph \in DOMAIN replacements : ScansAsInt(ph)}, LAMBDA numeric :
        [nd \in {ModelDurationString(ph.n) : ph \in numeric} |->
            replacements[CHOOSE ph \in numeric : ModelDurationString(ph.n) = nd]])

RECURSIVE Digits(_)
Digits(n) == IF n < 10 THEN 1 ELSE 1 + Digits(n \div 10)

\* len() of the placeholder string
PlaceholderLen(ph) ==
    Digits(ph.n) + (CASE ph.k = "num" -> 0 [] ph.k = "dur" -> 1 [] OTHER -> 5)

\* the comparison of slices.SortFunc: longer first, then the greater string
SortsBefore(a, b) ==
    \/ PlaceholderLen(a) > PlaceholderLen(b)
    \/ PlaceholderLen(a) = PlaceholderLen(b) /\ a.n > b.n

RECURSIVE SortPlaceholders(_)
SortPlaceholders(S) ==
    IF S = {} THEN <<>>
    ELSE LET x == CHOOSE x \in S : \A y \in S \ {x} : SortsBefore(x, y)
         IN  <<x>> \o SortPlaceholders(S \ {x})

sortPlaceholdersByLength(replacements) == SortPlaceholders(DOMAIN replacements)

\* `order` is the order in which the runtime ranges over durationMap
RECURSIVE restoreDurationVariables(_, _, _)
restoreDurationVariables(query, durationMap, order) ==
    IF order = <<>> THEN query
    ELSE restoreDurationVariables(
             ReplaceAll(query, Head(order), <<durationMap[Head(order)]>>),
             durationMap, Tail(order))

RECURSIVE restoreOtherPlaceholders(_, _, _)
restoreOtherPlaceholders(query, placeholders, replacements) ==
    IF placeholders = <<>> THEN query
    ELSE restoreOtherPlaceholders(
             ReplaceAll(query, <<Head(placeholders)>>,
                        <<replacements[Head(placeholders)]>>),
             Tail(placeholders), replacements)

restoreGrafanaVariablesPromQL(query, replacements, order) ==
    LET durationMap == buildDurationMap(replacements)
        placeholders == sortPlaceholdersByLength(replacements)
        result == restoreDurationVariables(query, durationMap, order)
    IN  restoreOtherPlaceholders(result, placeholders, replacements)

\* all orders in which a map with these keys can be ranged over
Orders(keys) ==
    {o \in [1..Cardinality(keys) -> keys] :
        \A i, j \in 1..Cardinality(keys) : i # j => o[i] # o[j]}

(***************************************************************************)
(* Expressions.  The parsers and printers are those of the libraries the   *)
(* program calls, cut down to the constructs the queries below use.        *)
(***************************************************************************)
Nil == [type |-> "nil"]
Fail == [ok |-> FALSE, node |-> Nil, pos |-> 0]
Ok(node, pos) == [ok |-> TRUE, node |-> node, pos |-> pos]

MatchEqual == "="
MatchOps == {"=", "!=", "=~", "!~"}
Matcher(type, name, value) == [Type |-> type, Name |-> name, Value |-> value]
MetricName == "__name__"

\* the lexer drops white space between lexemes
StripSpace(s) == SelectSeq(s, LAMBDA t : ~IsSpaceTok(t))

At(s, i, t) == i <= Len(s) /\ s[i] = t

\* index of the first Quote from i on (Len+1: none)
RECURSIVE NextQuote(_, _)
NextQuote(s, i) ==
    IF i > Len(s) \/ s[i] = Quote THEN i ELSE NextQuote(s, i + 1)

\* a double-quoted string at i: node is its content
ParseString(s, i) ==
    IF ~At(s, i, Quote) THEN Fail
    ELSE LET e == NextQuote(s, i + 1)
         IN  IF e > Len(s) THEN Fail ELSE Ok(Slice(s, i + 1, e - 1), e + 1)

\* label matchOp "string"
ParseMatcher(s, i) ==
    IF i + 1 > Len(s) \/ s[i].k # "w" \/ s[i + 1].k # "p"
       \/ s[i + 1].s \notin MatchOps
    THEN Fail
    ELSE LET v == ParseString(s, i + 2)
         IN  IF v.ok THEN Ok(Matcher(s[i + 1].s, s[i].s, v.node), v.pos) ELSE Fail

\* matcher ("," matcher)* "}" from i; node is the matcher list
RECURSIVE ParseMatcherList(_, _)
ParseMatcherList(s, i) ==
    Bind(ParseMatcher(s, i), LAMBDA m :
        LET r == ParseMatcherList(s, m.pos + 1)
        IN  IF ~m.ok THEN Fail
            ELSE IF At(s, m.pos, P("}")) THEN Ok(<<m.node>>, m.pos + 1)
            ELSE IF At(s, m.pos, P(",")) /\ r.ok
                 THEN Ok(<<m.node>> \o r.node, r.pos)
                 ELSE Fail)

\* "{" [matchers] "}" at i
ParseMatchers(s, i) ==
    IF ~At(s, i, P("{")) THEN Fail
    ELSE IF At(s, i + 1, P("}")) THEN Ok(<<>>, i + 2)
    ELSE ParseMatcherList(s, i + 1)

RECURSIVE DurSeconds(_)
DurSeconds(run) ==
    IF run = <<>> THEN 0
    ELSE LET t == Head(run)
             mult == CASE t.s = "y" -> SecondsPerYear [] t.s = "w" -> SecondsPerWeek
                       [] t.s = "d" -> SecondsPerDay [] t.s = "h" -> SecondsPerHour
                       [] t.s = "m" -> SecondsPerMinute [] OTHER -> 1
         IN  t.n * mult + DurSeconds(Tail(run))

(***************************************************************************)
(* PromQL parser                                                           *)
(***************************************************************************)
AggregateOps == {"sum", "topk"}
ParamAggregateOps == {"topk"}
Functions == {"rate", "absent"}
BinaryOps == {"+", "/", ">"}
Keywords == AggregateOps \cup {"by", "without"}

VectorSelector(name, matchers) ==
    [type |-> "VectorSelector", Name |-> name, LabelMatchers |-> matchers]
MatrixSelector(vs, range) ==
    [type |-> "MatrixSelector", VectorSelector |-> vs, Range |-> range]
SubqueryExpr(e, range) == [type |-> "SubqueryExpr", Expr |-> e, Range |-> range]
Call(func, args) == [type |-> "Call", Func |-> func, Args |-> args]
AggregateExpr(op, e, param, grouping, without) ==
    [type |-> "AggregateExpr", Op |-> op, Expr |-> e, Param |-> param,
     Grouping |-> grouping, Without |-> without]
BinaryExpr(op, lhs, rhs) == [type |-> "BinaryExpr", Op |-> op, LHS |-> lhs, RHS |-> rhs]
NumberLiteral(val) == [type |-> "NumberLiteral", Val |-> val]
ParenExpr(e) == [type |-> "ParenExpr", Expr |-> e]

\* a range in PromQL: a duration literal, or a bare number of seconds
PromDuration(run) ==
    IF run # <<>> /\ \A j \in 1..Len(run) : run[j].k = "dur"
    THEN Ok(DurSeconds(run), 0)
    ELSE IF Len(run) = 1 /\ run[1].k = "num"
         THEN Ok(run[1].n, 0)
         ELSE Fail

\* ("by" | "without") "(" label ")" at i; node is [Grouping, Without]
ParseGrouping(s, i) ==
    IF /\ i + 3 <= Len(s)
       /\ s[i] \in {W("by"), W("without")}
       /\ s[i + 1] = P("(")
       /\ s[i + 2].k = "w"
       /\ s[i + 3] = P(")")
    THEN Ok([Grouping |-> <<s[i + 2].s>>, Without |-> s[i] = W("without")], i + 4)
    ELSE Fail

NoGrouping == [Grouping |-> <<>>, Without |-> FALSE]

RECURSIVE PromExpr(_, _)
RECURSIVE PromTerm(_, _)
RECURSIVE PromPrimary(_, _)
RECURSIVE PromAggregate(_, _)

\* op [grouping] "(" [param ","] expr ")" [grouping], op at i
PromAggregate(s, i) ==
    LET pre == ParseGrouping(s, i + 1)
        open == IF pre.ok THEN pre.pos ELSE i + 1
        comma == s[i].s \in ParamAggregateOps
        param == IF comma THEN PromExpr(s, open + 1) ELSE Ok(Nil, open + 1)
        e == PromExpr(s, IF comma THEN param.pos + 1 ELSE open + 1)
        post == ParseGrouping(s, e.pos + 1)
        g == IF pre.ok THEN pre.node ELSE IF post.ok THEN post.node ELSE NoGrouping
        next == IF ~pre.ok /\ post.ok THEN post.pos ELSE e.pos + 1
    IN  IF \/ ~At(s, open, P("("))
           \/ ~param.ok
           \/ (comma /\ ~At(s, param.pos, P(",")))
           \/ ~e.ok
           \/ ~At(s, e.pos, P(")"))
        THEN Fail
        ELSE Ok(AggregateExpr(s[i].s, e.node, param.node, g.Grouping, g.Without),
                next)

PromPrimary(s, i) ==
    IF i > Len(s) THEN Fail
    ELSE IF s[i] = P("{")
    THEN LET m == ParseMatchers(s, i)
         IN  IF m.ok THEN Ok(VectorSelector(<<>>, m.node), m.pos) ELSE Fail
    ELSE IF s[i] = P("(")
    THEN LET e == PromExpr(s, i + 1)
         IN  IF e.ok /\ At(s, e.pos, P(")")) THEN Ok(ParenExpr(e.node), e.pos + 1)
             ELSE Fail
    ELSE IF ~IsWordTok(s[i]) THEN Fail
    ELSE LET e == WordRunEnd(s, i)
             run == Slice(s, i, e - 1)
             single == e = i + 1
             a == PromExpr(s, e + 1)
             name == Matcher(MatchEqual, MetricName, run)
             m == ParseMatchers(s, e)
         IN  IF single /\ s[i].k = "w" /\ s[i].s \in AggregateOps
             THEN PromAggregate(s, i)
             ELSE IF single /\ s[i].k = "w" /\ s[i].s \in Functions
             THEN IF At(s, e, P("(")) /\ a.ok /\ At(s, a.pos, P(")"))
                  THEN Ok(Call(s[i].s, <<a.node>>), a.pos + 1)
                  ELSE Fail
             ELSE IF single /\ s[i].k = "num"
             THEN Ok(NumberLiteral(s[i].n), e)
             ELSE IF (s[i].k = "w" /\ s[i].s \notin Keywords) \/ s[i].k = "ph"
             THEN \* an identifier: the metric name of a vector selector
                  IF At(s, e, P("{"))
                  THEN IF m.ok
                       THEN Ok(VectorSelector(run, Append(m.node, name)), m.pos)
                       ELSE Fail
                  ELSE Ok(VectorSelector(run, <<name>>), e)
             ELSE Fail

\* primary, then an optional range "[d]" or subquery "[d:]"
PromTerm(s, i) ==
    Bind(PromPrimary(s, i), LAMBDA p :
        IF ~p.ok THEN Fail
        ELSE IF ~At(s, p.pos, P("[")) THEN p
        ELSE LET e == WordRunEnd(s, p.pos + 1)
                 d == PromDuration(Slice(s, p.pos + 1, e - 1))
             IN  IF ~d.ok THEN Fail
                 ELSE IF At(s, e, P("]")) /\ p.node.type = "VectorSelector"
                 THEN Ok(MatrixSelector(p.node, d.node), e + 1)
                 ELSE IF At(s, e, P(":")) /\ At(s, e + 1, P("]"))
                 THEN Ok(SubqueryExpr(p.node, d.node), e + 2)
                 ELSE Fail)

PromExpr(s, i) ==
    Bind(PromTerm(s, i), LAMBDA l :
        IF ~l.ok THEN Fail
        ELSE IF l.pos <= Len(s) /\ s[l.pos].k = "p" /\ s[l.pos].s \in BinaryOps
        THEN Bind(PromTerm(s, l.pos + 1), LAMBDA r :
                 IF r.ok THEN Ok(BinaryExpr(s[l.pos].s, l.node, r.node), r.pos)
                 ELSE Fail)
        ELSE l)

\* the value type of an expression
RECURSIVE PromType(_)
PromType(node) ==
    CASE node.type = "NumberLiteral" -> "scalar"
      [] node.type \in {"MatrixSelector", "SubqueryExpr"} -> "matrix"
      [] node.type = "ParenExpr" -> PromType(node.Expr)
      [] node.type = "BinaryExpr" ->
             IF PromType(node.LHS) = "scalar" /\ PromType(node.RHS) = "scalar"
             THEN "scalar" ELSE "vector"
      [] OTHER -> "vector"

\* the type rules the parser checks the tree against
RECURSIVE checkAST(_)
checkAST(node) ==
    CASE node.type = "SubqueryExpr" ->
             PromType(node.Expr) = "vector" /\ checkAST(node.Expr)
      [] node.type = "Call" ->
             /\ PromType(node.Args[1]) =
                    (IF node.Func = "rate" THEN "matrix" ELSE "vector")
             /\ checkAST(node.Args[1])
      [] node.type = "AggregateExpr" ->
             /\ PromType(node.Expr) = "vector"
             /\ checkAST(node.Expr)
             /\ node.Op \in ParamAggregateOps =>
                    PromType(node.Param) = "scalar" /\ checkAST(node.Param)
      [] node.type = "BinaryExpr" ->
             /\ PromType(node.LHS) # "matrix"
             /\ PromType(node.RHS) # "matrix"
             /\ node.Op = ">" => PromType(node) = "vector"
             /\ checkAST(node.LHS)
             /\ checkAST(node.RHS)
      [] node.type = "ParenExpr" -> checkAST(node.Expr)
      [] OTHER -> TRUE

\* parser.ParseExpr: result [ok, node]
PromParseExpr(text) ==
    Bind(StripSpace(text), LAMBDA s :
    Bind(PromExpr(s, 1), LAMBDA r :
        IF r.ok /\ r.pos = Len(s) + 1 /\ checkAST(r.node) THEN r ELSE Fail))

(***************************************************************************)
(* PromQL printer                                                          *)
(***************************************************************************)
\* label names in byte order ('_' sorts before the lower-case letters)
LabelOrder == <<"__name__", "app", "env", "job", "team", "zone">>
LabelRank(name) == CHOOSE i \in 1..Len(LabelOrder) : LabelOrder[i] = name

\* sort.Strings on the rendered matchers; the names of one selector are
\* distinct in the queries used here, so the name decides
RECURSIVE InsertSorted(_, _)
InsertSorted(sorted, m) ==
    IF sorted = <<>> THEN <<m>>
    ELSE IF LabelRank(m.Name) < LabelRank(Head(sorted).Name) THEN <<m>> \o sorted
    ELSE <<Head(sorted)>> \o InsertSorted(Tail(sorted), m)

RECURSIVE SortMatchers(_)
SortMatchers(ms) ==
    IF ms = <<>> THEN <<>>
    ELSE InsertSorted(SortMatchers(SubSeq(ms, 1, Len(ms) - 1)), ms[Len(ms)])

\* labels.Matcher.String(): name op "value"
MatcherString(m) == <<W(m.Name), P(m.Type), Quote>> \o m.Value \o <<Quote>>

RECURSIVE Join(_, _)
Join(parts, sep) ==
    IF parts = <<>> THEN <<>>
    ELSE IF Len(parts) = 1 THEN parts[1]
    ELSE parts[1] \o sep \o Join(Tail(parts), sep)

\* VectorSelector.String(): the name matcher is left out, the rest is sorted
VectorSelectorString(node) ==
    LET shown == SelectSeq(node.LabelMatchers,
                     LAMBDA m : ~(m.Name = MetricName /\ m.Type = MatchEqual
                                  /\ m.Value = node.Name))
        sorted == SortMatchers(shown)
        labelStrings == [j \in 1..Len(sorted) |-> MatcherString(sorted[j])]
    IN  node.Name \o
        (IF labelStrings = <<>> THEN <<>>
         ELSE <<P("{")>> \o Join(labelStrings, <<P(",")>>) \o <<P("}")>>)

GroupingString(node) ==
    IF node.Grouping = <<>> THEN <<>>
    ELSE <<Sp, W(IF node.Without THEN "without" ELSE "by"), Sp, P("("),
           W(node.Grouping[1]), P(")"), Sp>>

RECURSIVE PromString(_)
PromString(node) ==
    CASE node.type = "VectorSelector" -> VectorSelectorString(node)
      [] node.type = "MatrixSelector" ->
            VectorSelectorString(node.VectorSelector)
            \o <<P("[")>> \o ModelDurationString(node.Range) \o <<P("]")>>
      [] node.type = "SubqueryExpr" ->
            PromString(node.Expr)
            \o <<P("[")>> \o ModelDurationString(node.Range) \o <<P(":"), P("]")>>
      [] node.type = "Call" ->
            <<W(node.Func), P("(")>> \o PromString(node.Args[1]) \o <<P(")")>>
      [] node.type = "AggregateExpr" ->
            <<W(node.Op)>> \o GroupingString(node) \o <<P("(")>>
            \o (IF node.Param = Nil THEN <<>>
                ELSE PromString(node.Param) \o <<P(","), Sp>>)
            \o PromString(node.Expr) \o <<P(")")>>
      [] node.type = "BinaryExpr" ->
            PromString(node.LHS) \o <<Sp, P(node.Op), Sp>> \o PromString(node.RHS)
      [] node.type = "ParenExpr" -> <<P("(")>> \o PromString(node.Expr) \o <<P(")")>>
      [] node.type = "NumberLiteral" -> <<Num(node.Val)>>

(***************************************************************************)
(* PromQL walk and injection                                               *)
(***************************************************************************)
\* parser.Children
Children(node) ==
    CASE node.type = "MatrixSelector" -> <<node.VectorSelector>>
      [] node.type = "SubqueryExpr" -> <<node.Expr>>
      [] node.type = "Call" -> node.Args
      [] node.type = "AggregateExpr" ->
            IF node.Param = Nil THEN <<node.Expr>> ELSE <<node.Expr, node.Param>>
      [] node.type = "BinaryExpr" -> <<node.LHS, node.RHS>>
      [] node.type = "ParenExpr" -> <<node.Expr>>
      [] OTHER -> <<>>

\* the node with its c-th child (in the order of Children) replaced
SetChild(node, c, child) ==
    CASE node.type = "MatrixSelector" -> [node EXCEPT !.VectorSelector = child]
      [] node.type = "SubqueryExpr" -> [node EXCEPT !.Expr = child]
      [] node.type = "Call" -> [node EXCEPT !.Args[c] = child]
      [] node.type = "AggregateExpr" ->
            IF c = 1 THEN [node EXCEPT !.Expr = child]
            ELSE [node EXCEPT !.Param = child]
      [] node.type = "BinaryExpr" ->
            IF c = 1 THEN [node EXCEPT !.LHS = child] ELSE [node EXCEPT !.RHS = child]
      [] node.type = "ParenExpr" -> [node EXCEPT !.Expr = child]

\* a node is named by its path: the child indices from the root down
RECURSIVE NodeAt(_, _)
NodeAt(node, path) ==
    IF path = <<>> THEN node ELSE NodeAt(Children(node)[Head(path)], Tail(path))

RECURSIVE ReplaceAt(_, _, _)
ReplaceAt(node, path, new) ==
    IF path = <<>> THEN new
    ELSE SetChild(node, Head(path),
                  ReplaceAt(Children(node)[Head(path)], Tail(path), new))

\* a traversal that stops at the children of the node it is given
traverseShallow(exp, path) ==
    LET idx == SelectSeq([c \in 1..Len(Children(exp)) |-> c],
                         LAMBDA c : Children(exp)[c].type = "VectorSelector")
    IN  [j \in 1..Len(idx) |-> Append(path, idx[j])]

RECURSIVE traverseChildren(_, _, _)
RECURSIVE traverseNode(_, _)

\* the loop body of traverseNode for the children c, c+1, ...
traverseChildren(exp, path, c) ==
    IF c > Len(Children(exp)) THEN <<>>
    ELSE LET child == Children(exp)[c]
         IN  (IF child.type = "VectorSelector" THEN <<Append(path, c)>> ELSE <<>>)
             \o traverseNode(child, Append(path, c))
             \o traverseChildren(exp, path, c + 1)

\* traverseNode: the selectors injectLabelMatcher is called on, in call order
traverseNode(exp, path) == traverseChildren(exp, path, 1)

\* the calls of injectLabelMatcher that PromQL.Transform makes, in order
PromInjectionCalls(exp) ==
    (IF exp.type = "VectorSelector" THEN <<<<>>>> ELSE <<>>)
    \o traverseNode(exp, <<>>)

\* a lookup that only sees matchers with the operator "="
HasEqualMatcherNamed(ms, key) ==
    \E j \in 1..Len(ms) : ms[j].Name = key /\ ms[j].Type = MatchEqual

HasMatcherNamed(ms, key) == \E j \in 1..Len(ms) : ms[j].Name = key

\* an injector that sets the value of a matcher it finds
RECURSIVE injectOverwriting(_, _, _)
injectOverwriting(e, matchers, order) ==
    IF order = <<>> THEN e
    ELSE LET key == Head(order)
             set(m) == IF m.Name = key
                       THEN Matcher(MatchEqual, key, matchers[key]) ELSE m
             next == IF HasMatcherNamed(e.LabelMatchers, key)
                     THEN [e EXCEPT !.LabelMatchers =
                              [j \in 1..Len(@) |-> set(@[j])]]
                     ELSE [e EXCEPT !.LabelMatchers =
                              Append(@, Matcher(MatchEqual, key, matchers[key]))]
         IN  injectOverwriting(next, matchers, Tail(order))

\* an injector that appends without looking at the matchers there are
RECURSIVE injectUnconditionally(_, _, _)
injectUnconditionally(e, matchers, order) ==
    IF order = <<>> THEN e
    ELSE injectUnconditionally(
             [e EXCEPT !.LabelMatchers =
                 Append(@, Matcher(MatchEqual, Head(order), matchers[Head(order)]))],
             matchers, Tail(order))

\* PromQL.injectLabelMatcher: `order` is the order the runtime ranges over
\* the map *p.matchers in
RECURSIVE promInjectLabelMatcher(_, _, _)
promInjectLabelMatcher(e, matchers, order) ==
    IF order = <<>> THEN e
    ELSE LET key == Head(order)
             next == IF HasMatcherNamed(e.LabelMatchers, key) THEN e
                     ELSE [e EXCEPT !.LabelMatchers =
                              Append(@, Matcher(MatchEqual, key, matchers[key]))]
         IN  promInjectLabelMatcher(next, matchers, Tail(order))

(***************************************************************************)
(* LogQL Encode                                                            *)
(***************************************************************************)
\* getPlaceholderQuoted closure: as getPlaceholder, and a new placeholder is
\* recorded as quoted
getPlaceholderQuoted(tab, variable, format) ==
    IF variable \in DOMAIN tab.variableToPlaceholder
    THEN [ph |-> tab.variableToPlaceholder[variable], tab |-> tab]
    ELSE LET g == getPlaceholder(tab, variable, format)
         IN  [ph |-> g.ph,
              tab |-> [g.tab EXCEPT !.quotedPlaceholders = @ \cup {g.ph}]]

replaceLogQLVariablesInDurations(query, tab) ==
    replaceDurationVariablesFrom(query, 1, tab, "%ds")

\* logQLLabelValuePattern at i:
\*   (\w+)\s*(=~?|!=?~?)\s*(?:"(VAR)"|(VAR)(?:\s|,|}|\]))
\* result [ok, nameEnd, op, wasQuoted, var, last]: last is the index of the
\* last lexeme of the match
NoLabelValueMatch ==
    [ok |-> FALSE, nameEnd |-> 0, op |-> 0, wasQuoted |-> FALSE, var |-> 0,
     last |-> 0]

LabelValueMatch(s, i) ==
    LET e == WordRunEnd(s, i)
        j == SkipSpaceRight(s, e)
        k == SkipSpaceRight(s, j + 1)
    IN  IF ~(e > i /\ j <= Len(s) /\ s[j].k = "p" /\ s[j].s \in MatchOps)
        THEN NoLabelValueMatch
        ELSE IF k + 2 <= Len(s) /\ s[k] = Quote /\ varPattern(s[k + 1])
                /\ s[k + 2] = Quote
        THEN [ok |-> TRUE, nameEnd |-> e - 1, op |-> j, wasQuoted |-> TRUE,
              var |-> k + 1, last |-> k + 2]
        ELSE IF /\ k + 1 <= Len(s)
                /\ varPattern(s[k])
                /\ (IsSpaceTok(s[k + 1]) \/ s[k + 1] \in {P(","), P("}"), P("]")})
        THEN [ok |-> TRUE, nameEnd |-> e - 1, op |-> j, wasQuoted |-> FALSE,
              var |-> k, last |-> k + 1]
        ELSE NoLabelValueMatch

\* the suffix the replacement keeps: the last byte of the match when it is
\* ' ', ',', '}' or ')'
KeptSuffix(t) == IF t \in {Sp, P(","), P("}"), P(")")} THEN <<t>> ELSE <<>>

RECURSIVE replaceLogQLVariablesInLabelValuesFrom(_, _, _)

\* the callback of replaceLogQLVariablesInLabelValues on the match m, with the
\* text from i up to the match in front and the rest of the text replaced
LabelValueReplace(query, i, tab, m) ==
    LET g == IF m.wasQuoted
             THEN getPlaceholderQuoted(tab, query[m.var], "%d")
             ELSE getPlaceholder(tab, query[m.var], "%d")
        r == replaceLogQLVariablesInLabelValuesFrom(query, m.last + 1, g.tab)
    IN  [text |-> Slice(query, i, m.nameEnd)
                  \o <<query[m.op], Quote, g.ph, Quote>>
                  \o KeptSuffix(query[m.last]) \o r.text,
         tab |-> r.tab]

\* ReplaceAllStringFunc over logQLLabelValuePattern
replaceLogQLVariablesInLabelValuesFrom(query, i, tab) ==
    LET j == FirstFrom({x \in 1..Len(query) : LabelValueMatch(query, x).ok}, i)
        r == LabelValueReplace(query, i, tab, LabelValueMatch(query, j))
    IN  IF j = 0 THEN [text |-> Slice(query, i, Len(query)), tab |-> tab] ELSE r

replaceLogQLVariablesInLabelValues(query, tab) ==
    replaceLogQLVariablesInLabelValuesFrom(query, 1, tab)

replaceLogQLVariablesInOtherContexts(query, tab) ==
    replaceValueVariablesFrom(query, 1, tab)

\* the key "__quoted__" + placeholder
QuotedKey(ph) == [k |-> "__quoted__", s |-> ph.s, n |-> ph.n]
IsQuotedKey(key) == key.k = "__quoted__"
QuotedMark == W("true")

\* result [text, tab]; the program returns (text, tab.replacements)
replaceGrafanaVariables(query) ==
    Bind(replaceLogQLVariablesInDurations(query, NewTable), LAMBDA r1 :
    Bind(replaceLogQLVariablesInLabelValues(r1.text, r1.tab), LAMBDA r2 :
    Bind(replaceLogQLVariablesInOtherContexts(r2.text, r2.tab), LAMBDA r3 :
        [text |-> r3.text,
         tab |-> [r3.tab EXCEPT !.replacements =
                     @ @@ [key \in {QuotedKey(ph) :
                                        ph \in r3.tab.quotedPlaceholders}
                              |-> QuotedMark]]])))

(***************************************************************************)
(* LogQL Decode                                                            *)
(***************************************************************************)
\* formatLogQLDuration(seconds * time.Second)
formatLogQLDuration(seconds) ==
    LET days == seconds \div SecondsPerDay
        d1 == seconds - days * SecondsPerDay
        hours == d1 \div SecondsPerHour
        d2 == d1 - hours * SecondsPerHour
        minutes == d2 \div SecondsPerMinute
        secs == d2 - minutes * SecondsPerMinute
        parts == (IF days > 0 THEN <<Dur(days, "d")>> ELSE <<>>)
                 \o (IF hours > 0 THEN <<Dur(hours, "h")>> ELSE <<>>)
                 \o (IF minutes > 0 THEN <<Dur(minutes, "m")>> ELSE <<>>)
    IN  parts \o (IF secs > 0 \/ parts = <<>> THEN <<Dur(secs, "s")>> ELSE <<>>)

\* strings.HasSuffix(placeholder, "s") and Sscanf of the rest succeeds
IsSecondsPlaceholder(key) == key.k = "dur" /\ key.s = "s"

buildLogQLDurationMap(replacements) ==
    Bind({ph \in DOMAIN replacements : IsSecondsPlaceholder(ph)},
         LAMBDA durations :
        [nd \in {formatLogQLDuration(ph.n) : ph \in durations} |->
            replacements[CHOOSE ph \in durations : formatLogQLDuration(ph.n) = nd]])

sortLogQLPlaceholdersByLength(replacements) ==
    SortPlaceholders({ph \in DOMAIN replacements : ~IsQuotedKey(ph)})

restoreLogQLDurationVariables(query, durationMap, order) ==
    restoreDurationVariables(query, durationMap, order)

RECURSIVE restoreLogQLOtherPlaceholders(_, _, _)
restoreLogQLOtherPlaceholders(query, placeholders, replacements) ==
    IF placeholders = <<>> THEN query
    ELSE LET placeholder == Head(placeholders)
             original == replacements[placeholder]
             wasQuoted == QuotedKey(placeholder) \in DOMAIN replacements
             quotedPlaceholder == <<Quote, placeholder, Quote>>
             result ==
                 IF wasQuoted
                 THEN ReplaceAll(query, quotedPlaceholder, <<Quote, original, Quote>>)
                 ELSE IF Contains(query, quotedPlaceholder)
                      THEN ReplaceAll(query, quotedPlaceholder, <<original>>)
                      ELSE ReplaceAll(query, <<placeholder>>, <<original>>)
         IN  restoreLogQLOtherPlaceholders(result, Tail(placeholders), replacements)

restoreGrafanaVariables(query, replacements, order) ==
    LET durationMap == buildLogQLDurationMap(replacements)
        placeholders == sortLogQLPlaceholdersByLength(replacements)
        result == restoreLogQLDurationVariables(query, durationMap, order)
    IN  restoreLogQLOtherPlaceholders(result, placeholders, replacements)

(***************************************************************************)
(* LogQL parser, printer and walk (package logql/syntax)                   *)
(***************************************************************************)
RangeOps == {"rate", "count_over_time"}
VectorOps == {"sum"}
LineFilterOps == {"|=", "|~", "!=", "!~"}
LabelFilterOps == MatchOps \cup {">", ">="}

MatchersExpr(mts) == [type |-> "MatchersExpr", Mts |-> mts]
PipelineExpr(left, stages) ==
    [type |-> "PipelineExpr", Left |-> left, MultiStages |-> stages]
LineFilterExpr(op, match) == [type |-> "LineFilterExpr", Op |-> op, Match |-> match]
LabelFilterExpr(name, op, value) ==
    [type |-> "LabelFilterExpr", Name |-> name, Op |-> op, Value |-> value]
LogRange(left, interval) == [type |-> "LogRange", Left |-> left, Interval |-> interval]
RangeAggregationExpr(op, left) ==
    [type |-> "RangeAggregationExpr", Operation |-> op, Left |-> left]
VectorAggregationExpr(op, left, grouping, without) ==
    [type |-> "VectorAggregationExpr", Operation |-> op, Left |-> left,
     Grouping |-> grouping, Without |-> without]
BinOpExpr(op, lhs, rhs) == [type |-> "BinOpExpr", Op |-> op, SampleExpr |-> lhs, RHS |-> rhs]
LiteralExpr(val) == [type |-> "LiteralExpr", Val |-> val]

LogSelectorTypes == {"MatchersExpr", "PipelineExpr"}

\* a range in LogQL: a duration with its unit
LogDuration(run) ==
    IF run # <<>> /\ \A j \in 1..Len(run) : run[j].k = "dur"
    THEN Ok(DurSeconds(run), 0)
    ELSE Fail

\* one pipeline stage at i: a line filter, or "|" label op value
LogStage(s, i) ==
    IF i + 1 > Len(s) \/ s[i].k # "p" THEN Fail
    ELSE IF s[i].s \in LineFilterOps
    THEN LET m == ParseString(s, i + 1)
         IN  IF m.ok THEN Ok(LineFilterExpr(s[i].s, m.node), m.pos) ELSE Fail
    ELSE IF s[i].s = "|" /\ i + 3 <= Len(s) /\ s[i + 1].k = "w"
            /\ s[i + 2].k = "p" /\ s[i + 2].s \in LabelFilterOps
    THEN LET q == ParseString(s, i + 3)
         IN  IF q.ok
             THEN Ok(LabelFilterExpr(s[i + 1].s, s[i + 2].s,
                                     <<Quote>> \o q.node \o <<Quote>>), q.pos)
             ELSE IF s[i + 3].k \in {"num", "dur"}
                  THEN Ok(LabelFilterExpr(s[i + 1].s, s[i + 2].s, <<s[i + 3]>>), i + 4)
                  ELSE Fail
    ELSE Fail

RECURSIVE LogStages(_, _)
LogStages(s, i) ==
    Bind(LogStage(s, i), LAMBDA st :
        LET r == LogStages(s, st.pos)
        IN  IF ~st.ok THEN Ok(<<>>, i) ELSE Ok(<<st.node>> \o r.node, r.pos))

\* "{" matchers "}" stage*: a selector needs at least one matcher
LogSelector(s, i) ==
    Bind(ParseMatchers(s, i), LAMBDA m :
        IF ~m.ok \/ m.node = <<>> THEN Fail
        ELSE Bind(LogStages(s, m.pos), LAMBDA st :
                 IF st.node = <<>> THEN Ok(MatchersExpr(m.node), m.pos)
                 ELSE Ok(PipelineExpr(MatchersExpr(m.node), st.node), st.pos)))

RECURSIVE LogExpr(_, _)
RECURSIVE LogTerm(_, _)

LogTerm(s, i) ==
    IF i > Len(s) THEN Fail
    ELSE IF s[i] = P("{") THEN LogSelector(s, i)
    ELSE IF s[i].k = "num" THEN Ok(LiteralExpr(s[i].n), i + 1)
    ELSE IF s[i].k = "w" /\ s[i].s \in RangeOps
    THEN Bind(LogSelector(s, i + 2), LAMBDA sel :
             LET e == WordRunEnd(s, sel.pos + 1)
                 d == LogDuration(Slice(s, sel.pos + 1, e - 1))
             IN  IF /\ At(s, i + 1, P("("))
                    /\ sel.ok
                    /\ At(s, sel.pos, P("["))
                    /\ d.ok
                    /\ At(s, e, P("]"))
                    /\ At(s, e + 1, P(")"))
                 THEN Ok(RangeAggregationExpr(s[i].s, LogRange(sel.node, d.node)),
                         e + 2)
                 ELSE Fail)
    ELSE IF s[i].k = "w" /\ s[i].s \in VectorOps
    THEN LET pre == ParseGrouping(s, i + 1)
             open == IF pre.ok THEN pre.pos ELSE i + 1
             e == LogExpr(s, open + 1)
             post == ParseGrouping(s, e.pos + 1)
             g == IF pre.ok THEN pre.node
                  ELSE IF post.ok THEN post.node ELSE NoGrouping
             next == IF ~pre.ok /\ post.ok THEN post.pos ELSE e.pos + 1
         IN  IF ~At(s, open, P("(")) \/ ~e.ok \/ e.node.type \in LogSelectorTypes
                \/ ~At(s, e.pos, P(")"))
             THEN Fail
             ELSE Ok(VectorAggregationExpr(s[i].s, e.node, g.Grouping, g.Without),
                     next)
    ELSE Fail

LogExpr(s, i) ==
    Bind(LogTerm(s, i), LAMBDA l :
        IF ~l.ok THEN Fail
        ELSE IF l.pos <= Len(s) /\ s[l.pos].k = "p" /\ s[l.pos].s \in BinaryOps
        THEN Bind(LogTerm(s, l.pos + 1), LAMBDA r :
                 IF r.ok /\ l.node.type \notin LogSelectorTypes
                    /\ r.node.type \notin LogSelectorTypes
                 THEN Ok(BinOpExpr(s[l.pos].s, l.node, r.node), r.pos)
                 ELSE Fail)
        ELSE l)

\* syntax.ParseExpr: result [ok, node]
LogParseExpr(text) ==
    Bind(StripSpace(text), LAMBDA s :
    Bind(LogExpr(s, 1), LAMBDA r :
        IF r.ok /\ r.pos = Len(s) + 1 THEN r ELSE Fail))

\* MatchersExpr.String(): the matchers in list order
MatchersExprString(node) ==
    <<P("{")>>
    \o Join([j \in 1..Len(node.Mts) |-> MatcherString(node.Mts[j])], <<P(","), Sp>>)
    \o <<P("}")>>

StageString(st) ==
    IF st.type = "LineFilterExpr"
    THEN <<P(st.Op), Sp, Quote>> \o st.Match \o <<Quote>>
    ELSE <<P("|"), Sp, W(st.Name), P(st.Op)>> \o st.Value

LogGroupingString(node) ==
    IF node.Grouping = <<>> THEN <<>>
    ELSE <<Sp, W(IF node.Without THEN "without" ELSE "by"), P("("),
           W(node.Grouping[1]), P(")")>>

RECURSIVE LogString(_)
LogString(node) ==
    CASE node.type = "MatchersExpr" -> MatchersExprString(node)
      [] node.type = "PipelineExpr" ->
            MatchersExprString(node.Left) \o <<Sp>>
            \o Join([j \in 1..Len(node.MultiStages) |->
                        StageString(node.MultiStages[j])], <<Sp>>)
      [] node.type = "LogRange" ->
            LogString(node.Left)
            \o <<P("[")>> \o ModelDurationString(node.Interval) \o <<P("]")>>
      [] node.type = "RangeAggregationExpr" ->
            <<W(node.Operation), P("(")>> \o LogString(node.Left) \o <<P(")")>>
      [] node.type = "VectorAggregationExpr" ->
            <<W(node.Operation)>> \o LogGroupingString(node) \o <<P("(")>>
            \o LogString(node.Left) \o <<P(")")>>
      [] node.type = "BinOpExpr" ->
            <<P("(")>> \o LogString(node.SampleExpr) \o <<Sp, P(node.Op), Sp>>
            \o LogString(node.RHS) \o <<P(")")>>
      [] node.type = "LiteralExpr" -> <<Num(node.Val)>>

\* the expressions below a node that Walk descends into
LogChildren(node) ==
    CASE node.type = "PipelineExpr" -> <<node.Left>>
      [] node.type = "LogRange" -> <<node.Left>>
      [] node.type = "RangeAggregationExpr" -> <<node.Left>>
      [] node.type = "VectorAggregationExpr" -> <<node.Left>>
      [] node.type = "BinOpExpr" -> <<node.SampleExpr, node.RHS>>
      [] OTHER -> <<>>

LogSetChild(node, c, child) ==
    CASE node.type = "BinOpExpr" ->
            IF c = 1 THEN [node EXCEPT !.SampleExpr = child]
            ELSE [node EXCEPT !.RHS = child]
      [] OTHER -> [node EXCEPT !.Left = child]

RECURSIVE LogNodeAt(_, _)
LogNodeAt(node, path) ==
    IF path = <<>> THEN node
    ELSE LogNodeAt(LogChildren(node)[Head(path)], Tail(path))

RECURSIVE LogReplaceAt(_, _, _)
LogReplaceAt(node, path, new) ==
    IF path = <<>> THEN new
    ELSE LogSetChild(node, Head(path),
                     LogReplaceAt(LogChildren(node)[Head(path)], Tail(path), new))

RECURSIVE Walk(_, _)
RECURSIVE WalkAll(_, _, _)

\* Expr.Walk(f): f on the node, then on everything below it; result: the
\* paths f is called with, in call order
Walk(node, path) == <<path>> \o WalkAll(node, path, 1)

WalkAll(node, path, c) ==
    IF c > Len(LogChildren(node)) THEN <<>>
    ELSE Walk(LogChildren(node)[c], Append(path, c)) \o WalkAll(node, path, c + 1)

\* LogQL.traverse as the callback of Walk: the calls of injectLabelMatcher
LogInjectionCalls(exp) ==
    SelectSeq(Walk(exp, <<>>), LAMBDA p : LogNodeAt(exp, p).type = "MatchersExpr")

\* keeps the order the keys were collected in
keepOrder(xs) == xs

\* sort.Strings
RECURSIVE InsertString(_, _)
InsertString(sorted, x) ==
    IF sorted = <<>> THEN <<x>>
    ELSE IF LabelRank(x) < LabelRank(Head(sorted)) THEN <<x>> \o sorted
    ELSE <<Head(sorted)>> \o InsertString(Tail(sorted), x)

RECURSIVE SortStrings(_)
SortStrings(xs) ==
    IF xs = <<>> THEN <<>>
    ELSE InsertString(SortStrings(SubSeq(xs, 1, Len(xs) - 1)), xs[Len(xs)])

\* the loop of LogQL.injectLabelMatcher over the keys from index i on
RECURSIVE appendMatchersFrom(_, _, _, _)
appendMatchersFrom(e, matchers, sortedMatchers, i) ==
    IF i > Len(sortedMatchers) THEN <<>>
    ELSE LET key == sortedMatchers[i]
         IN  (IF HasMatcherNamed(e.Mts, key) THEN <<>>
              ELSE <<Matcher(MatchEqual, key, matchers[key])>>)
             \o appendMatchersFrom(e, matchers, sortedMatchers, i + 1)

\* LogQL.injectLabelMatcher
logInjectLabelMatcher(e, matchers, sortedMatchers) ==
    [e EXCEPT !.Mts = @ \o appendMatchersFrom(e, matchers, sortedMatchers, 1)]

(***************************************************************************)
(* The queries and injection sets the calls are made with                  *)
(***************************************************************************)
NumVars == 2
MaxVarOcc == 2
MaxMatchers == 2

VarNames == <<"${a}", "${b}", "${c}", "${d}">>
Vars == {V(VarNames[i]) : i \in 1..NumVars}

InjectKeys == <<"env", "zone", "app", "team">>
InjectValue == <<W("prod")>>
\* the injection sets: every set of keys among the first MaxMatchers
InjectionSets ==
    {[key \in keys |-> InjectValue] :
        keys \in SUBSET {InjectKeys[i] : i \in 1..MaxMatchers}}

Txt(s) == [k |-> "txt", s |-> s, n |-> 0]
Str(content) == <<Quote>> \o content \o <<Quote>>
CountVars(q) == Len(SelectSeq(q, varPattern))

\* PromQL metric names: up  up${v}  up${v}_t  up${v}_t${w}  ${v}_t  ${v}
PromNames ==
    {<<W("up")>>}
    \cup {<<W("up"), v>> : v \in Vars}
    \cup {<<W("up"), v, W("_t")>> : v \in Vars}
    \cup {<<W("up"), v, W("_t"), w>> : v \in Vars, w \in Vars}
    \cup {<<v, W("_t")>> : v \in Vars}
    \cup {<<v>> : v \in Vars}

\* PromQL matcher lists
PromLabels ==
    {<<>>,
     <<P("{"), W("env"), P("=~")>> \o Str(<<W("x")>>) \o <<P("}")>>,
     <<P("{"), W("job"), P("=")>> \o Str(<<W("x")>>)
         \o <<P(","), W("env"), P("=")>> \o Str(<<W("y")>>) \o <<P("}")>>}
    \cup {<<P("{"), W("job"), P("=")>> \o Str(<<v>>) \o <<P("}")>> : v \in Vars}
    \cup {<<P("{"), W("job"), P("=~")>> \o Str(<<v, Txt(".*")>>)
              \o <<P(","), W("env"), P("=")>> \o Str(<<W("x")>>) \o <<P("}")>>
          : v \in Vars}

Ranges == {<<Dur(5, "m")>>} \cup {<<v>> : v \in Vars}
FuncNames == {W("rate")} \cup Vars
GroupLabels == {W("job")} \cup Vars
Params == {Num(3)} \cup Vars

PromRate(f, n, l, r) ==
    <<f, P("(")>> \o n \o l \o <<P("[")>> \o r \o <<P("]"), P(")")>>

\* the names and matcher lists the larger shapes are built with
ShortNames == {<<W("up")>>} \cup {<<v>> : v \in Vars}
ShortLabels ==
    {<<>>, <<P("{"), W("env"), P("=~")>> \o Str(<<W("x")>>) \o <<P("}")>>}

PromShapes ==
    {n \o l : n \in PromNames, l \in PromLabels}
    \cup {PromRate(W("rate"), n, l, r) :
             n \in PromNames, l \in PromLabels, r \in Ranges}
    \cup {PromRate(f, n, l, r) :
             f \in Vars, n \in ShortNames, l \in ShortLabels, r \in Ranges}
    \cup {<<W("sum"), P("(")>> \o PromRate(f, n, l, r)
          \o <<P(")"), Sp, W("by"), Sp, P("("), g, P(")")>> :
             f \in FuncNames, n \in ShortNames, l \in ShortLabels, r \in Ranges,
             g \in GroupLabels}
    \cup {<<W("topk"), P("("), k, P(","), Sp>> \o n \o l \o <<P(")")>> :
             k \in Params, n \in PromNames, l \in ShortLabels}
    \cup {PromRate(W("rate"), n, l, r) \o <<Sp, P("/"), Sp>>
          \o PromRate(W("rate"), <<W("up")>>, <<>>, r2) :
             n \in PromNames, l \in ShortLabels, r \in Ranges, r2 \in Ranges}
    \cup {n \o l \o <<P("[")>> \o r \o <<P(":"), P("]")>> :
             n \in PromNames, l \in ShortLabels, r \in Ranges}
    \cup {<<P("(")>> \o n \o l \o <<P(")"), Sp, P(">"), Sp, Num(0)>> :
             n \in PromNames, l \in ShortLabels}
    \cup {<<W("up"), P("{"), W("job"), P("=")>> \o Str(<<x>>) :
             x \in {W("x")} \cup Vars}

PromQueries == {q \in PromShapes : CountVars(q) <= MaxVarOcc}

\* LogQL stream selectors: quoted and bare variables, with the delimiters
\* and the white space a query can have around them
LogLabels ==
    {<<P("{"), W("app"), P("=")>> \o Str(<<W("x")>>) \o <<P("}")>>,
     <<P("{"), W("job"), P("=")>> \o Str(<<W("x")>>)
         \o <<P(","), Sp, W("env"), P("=~")>> \o Str(<<W("y")>>) \o <<P("}")>>}
    \cup {<<P("{"), W("app"), P("=")>> \o Str(<<v>>) \o <<P("}")>> : v \in Vars}
    \cup {<<P("{"), W("app"), Sp, P("="), Sp>> \o Str(<<v>>) \o <<P("}")>> : v \in Vars}
    \cup {<<P("{"), W("app"), P("="), v, P("}")>> : v \in Vars}
    \cup {<<P("{"), W("app"), P("="), v, Nl, P("}")>> : v \in Vars}
    \cup {<<P("{"), W("app"), P("=~"), v, P(","), Sp, W("env"), P("=")>>
              \o Str(<<W("x")>>) \o <<P("}")>> : v \in Vars}
    \cup {<<P("{"), W("app"), P("=")>> \o Str(<<v>>)
              \o <<P(","), Sp, W("job"), P("="), w, P("}")>> : v \in Vars, w \in Vars}

\* LogQL pipelines
LogStagesText ==
    {<<>>, <<Sp, P("|="), Sp>> \o Str(<<W("x")>>)}
    \cup {<<Sp, P("|="), Sp>> \o Str(<<v>>) : v \in Vars}
    \cup {<<Sp, P("|~"), Sp>> \o Str(<<v, Txt(".*")>>) : v \in Vars}
    \cup {<<Sp, P("|"), Sp, W("ts"), Sp, P(">="), Sp, v>> : v \in Vars}

LogRate(f, l, st, r) ==
    <<f, P("(")>> \o l \o st \o <<P("[")>> \o r \o <<P("]"), P(")")>>

LogShapes ==
    {l \o st : l \in LogLabels, st \in LogStagesText}
    \cup {LogRate(W("rate"), l, st, r) :
             l \in LogLabels, st \in LogStagesText, r \in Ranges}
    \cup {LogRate(f, <<P("{"), W("app"), P("=")>> \o Str(<<x>>) \o <<P("}")>>,
                   <<>>, r) :
             f \in Vars, x \in {W("x")} \cup Vars, r \in Ranges}
    \cup {<<W("sum"), Sp, W("by"), P("("), g, P(")"), Sp, P("(")>>
          \o LogRate(W("rate"), l, <<>>, r) \o <<P(")")>> :
             l \in LogLabels, r \in Ranges, g \in GroupLabels}
    \cup {LogRate(W("rate"), l, <<>>, r) \o <<Sp, P("/"), Sp>>
          \o LogRate(W("count_over_time"),
                     <<P("{"), W("app"), P("=")>> \o Str(<<W("x")>>) \o <<P("}")>>,
                     <<>>, r2) :
             l \in LogLabels, r \in Ranges, r2 \in Ranges}
    \cup {<<P("{"), W("app"), P("=")>> \o Str(<<x>>) : x \in {W("x")} \cup Vars}

LogQueries == {q \in LogShapes : CountVars(q) <= MaxVarOcc}

Queries(d) == IF d = "promql" THEN PromQueries ELSE LogQueries

(***************************************************************************)
(* Transform as a state machine.  A call runs from "start" to "done"; the  *)
(* same call is then made a second time on the same receiver.              *)
(***************************************************************************)
VARIABLES
    dialect,        \* which Checker the call is made on
    arg,            \* Transform's argument: the query
    matchers,       \* Transform's argument: the injection set
    pc,             \* the position in Transform
    processed,      \* the encoded query
    table,          \* the state of the closures of the Encode call
    occurrences,    \* the placeholder table Encode returned
    expr,           \* the receiver's field expr
    sortedMatchers, \* the receiver's field sortedMatchers (LogQL)
    parsed,         \* history: the tree as the parser returned it
    todo,           \* the selectors the walk has yet to reach
    visited,        \* history: the selectors injectLabelMatcher was called on
    printed,        \* the text of the tree after the walk
    result,         \* the returned string
    err,            \* the returned error
    trace,          \* history: the steps of this call
    call,           \* the number of the call
    first           \* history: what the first call returned

tvars == <<dialect, arg, matchers, pc, processed, table, occurrences, expr,
           sortedMatchers, parsed, todo, visited, printed, result, err, trace,
           call, first>>

\* ValidateRules of the LogQL Checker (package lokiruler)
VARIABLES
    data,           \* ValidateRules' argument: the content of the rule file
    rpc,            \* the position in ValidateRules
    groups,         \* parseRules: the decoded rule groups
    gi,             \* ValidateGroups: the index of the group, from 0
    ri,             \* ValidateGroups: the index of the rule in its group, from 0
    set,            \* ValidateGroups: the group names seen
    errs,           \* the errors collected
    rg,             \* the returned rule groups
    rerr,           \* the returned error
    checked         \* history: the rules validateRuleNode was called on

rvars == <<data, rpc, groups, gi, ri, set, errs, rg, rerr, checked>>

\* two Transform calls in two threads
VARIABLES
    recv,           \* the Checker values: their fields
    heap,           \* the expressions the parsers have allocated
    th              \* the threads: receiver, arguments, locals, position

cvars == <<recv, heap, th>>

\* a LabelsBuilder
VARIABLES
    base,           \* the base labels
    add,            \* the slice add: its backing array and its length
    del,            \* the slice del
    last,           \* history: the last Set or Del on each name since Reset
    got,            \* what Get returned, if Get was the last operation
    panicked,       \* a slice expression was out of range
    nops,           \* the number of operations made
    berr,           \* the field err
    mapped          \* what Map returned, if Map was the last operation

bvars == <<base, add, del, last, got, panicked, nops, berr, mapped>>

\* the LabelsBuilders of one BaseLabelsBuilder
VARIABLES
    store,          \* the BaseLabelsBuilder values by address: add, del, err
    lb,             \* the LabelsBuilders made: base labels and the pointer
    hist,           \* history: the last Set or Del on each name since Reset
    herr,           \* history: the last SetErr since Reset
    sops            \* the number of operations made

svars == <<store, lb, hist, herr, sops>>

\* one run of the command line program
VARIABLES
    cli,            \* the command line: subcommand, --format, --label-matcher
    ctx,            \* c.Context: the chain of keys and values
    mpc,            \* the position of the run
    impl,           \* the Checker the action has got from the context
    inj             \* what GetLabelMatchers has returned

mvars == <<cli, ctx, mpc, impl, inj>>

vars == <<tvars, rvars, cvars, bvars, svars, mvars>>

\* no call of Transform is under way in the single-threaded caller
TransformIdle ==
    /\ dialect = "logql" /\ arg = <<>> /\ matchers = <<>> /\ pc = "idle"
    /\ processed = <<>> /\ table = <<>> /\ occurrences = <<>>
    /\ expr = <<>> /\ sortedMatchers = <<>> /\ parsed = <<>> /\ todo = <<>>
    /\ visited = <<>> /\ printed = <<>> /\ result = <<>> /\ err = "nil"
    /\ trace = <<>> /\ call = 1 /\ first = <<>>

\* no call of ValidateRules is under way
RulesIdle ==
    /\ data = <<>> /\ rpc = "idle" /\ groups = <<>> /\ gi = 0 /\ ri = 0
    /\ set = {} /\ errs = <<>> /\ rg = <<>> /\ rerr = <<>> /\ checked = <<>>

\* no thread is running
ThreadsIdle == recv = <<>> /\ heap = <<>> /\ th = <<>>

\* no BaseLabelsBuilder is shared
SharedIdle ==
    store = <<>> /\ lb = <<>> /\ hist = <<>> /\ herr = "" /\ sops = 0

\* the program is not run
CliIdle ==
    cli = <<>> /\ ctx = <<>> /\ mpc = "idle" /\ impl = <<>> /\ inj = <<>>

\* no LabelsBuilder is in use
BuilderIdle ==
    /\ base = <<>> /\ add = <<>> /\ del = <<>> /\ last = <<>> /\ got = <<>>
    /\ panicked = FALSE /\ nops = 0 /\ berr = "" /\ mapped = <<>>

Dialects == {"promql", "logql"}
NoReturn == [result |-> <<>>, err |-> "none"]

Init ==
    /\ dialect \in Dialects
    /\ arg \in Queries(dialect)
    /\ matchers \in InjectionSets
    /\ pc = "start"
    /\ processed = <<>>
    /\ table = NewTable
    /\ occurrences = EmptyMap
    /\ expr = Nil
    /\ sortedMatchers = <<>>
    /\ parsed = Nil
    /\ todo = <<>>
    /\ visited = <<>>
    /\ printed = <<>>
    /\ result = <<>>
    /\ err = ErrNone
    /\ trace = <<>>
    /\ call = 1
    /\ first = NoReturn
    /\ RulesIdle /\ ThreadsIdle /\ BuilderIdle
    /\ SharedIdle /\ CliIdle

\* a return that hands back the text Transform was working on
returnProcessed(original, encoded) == encoded

\* `return arg, err`: what Transform returns beside an error
errorReturn(original, encoded) == original

\* PromQL.Transform, the structural check and its early return
Check ==
    /\ pc = "start"
    /\ dialect = "promql"
    /\ LET e == checkUnsupportedVariables(arg)
       IN  /\ err' = e
           /\ IF e # ErrNone
              THEN pc' = "done" /\ result' = errorReturn(arg, processed)
              ELSE pc' = "checked" /\ UNCHANGED result
    /\ trace' = Append(trace, "check")
    /\ UNCHANGED <<dialect, arg, matchers, processed, table, occurrences, expr,
                   sortedMatchers, parsed, todo, visited, printed, call, first>>
    /\ UNCHANGED <<rvars, cvars, bvars, svars, mvars>>

\* the call of replaceGrafanaVariablesPromQL / replaceGrafanaVariables
Encode ==
    /\ \/ pc = "checked" /\ dialect = "promql"
       \/ pc = "start" /\ dialect = "logql"
    /\ \E r \in {IF dialect = "promql" THEN replaceGrafanaVariablesPromQL(arg)
                 ELSE replaceGrafanaVariables(arg)} :
           /\ processed' = r.text
           /\ table' = r.tab
           /\ occurrences' = r.tab.replacements
    /\ pc' = "encoded"
    /\ trace' = Append(trace, "encode")
    /\ UNCHANGED <<dialect, arg, matchers, expr, sortedMatchers, parsed, todo,
                   visited, printed, result, err, call, first>>
    /\ UNCHANGED <<rvars, cvars, bvars, svars, mvars>>

\* parser.ParseExpr, its early return, and the assignments to the receiver
\* up to the walk; the keys are collected in the order the runtime ranges
\* over the map in and are then sorted
Parse ==
    /\ pc = "encoded"
    /\ \E r \in {IF dialect = "promql" THEN PromParseExpr(processed)
                 ELSE LogParseExpr(processed)} :
           IF ~r.ok
           THEN /\ err' = ErrParse
                /\ result' = errorReturn(arg, processed)
                /\ pc' = "done"
                /\ UNCHANGED <<expr, sortedMatchers, parsed, todo>>
           ELSE /\ expr' = r.node
                /\ parsed' = r.node
                /\ pc' = "walk"
                /\ IF dialect = "promql"
                   THEN /\ todo' = PromInjectionCalls(r.node)
                        /\ UNCHANGED sortedMatchers
                   ELSE /\ todo' = LogInjectionCalls(r.node)
                        /\ \E sm \in Orders(DOMAIN matchers) :
                               sortedMatchers' = SortStrings(sm)
                /\ UNCHANGED <<result, err>>
    /\ trace' = Append(trace, "parse")
    /\ UNCHANGED <<dialect, arg, matchers, processed, table, occurrences,
                   visited, printed, call, first>>
    /\ UNCHANGED <<rvars, cvars, bvars, svars, mvars>>

\* one call of injectLabelMatcher, on the next selector of the walk
Inject ==
    /\ pc = "walk"
    /\ todo # <<>>
    /\ LET path == Head(todo)
       IN  /\ IF dialect = "promql"
              THEN \E order \in Orders(DOMAIN matchers) :
                       expr' = ReplaceAt(expr, path,
                                   promInjectLabelMatcher(NodeAt(expr, path),
                                                          matchers, order))
              ELSE expr' = LogReplaceAt(expr, path,
                               logInjectLabelMatcher(LogNodeAt(expr, path),
                                                     matchers, sortedMatchers))
           /\ visited' = Append(visited, path)
    /\ todo' = Tail(todo)
    /\ trace' = Append(trace, "inject")
    /\ UNCHANGED <<dialect, arg, matchers, pc, processed, table, occurrences,
                   sortedMatchers, parsed, printed, result, err, call, first>>
    /\ UNCHANGED <<rvars, cvars, bvars, svars, mvars>>

\* p.expr.String()
String ==
    /\ pc = "walk"
    /\ todo = <<>>
    /\ printed' = IF dialect = "promql" THEN PromString(expr) ELSE LogString(expr)
    /\ pc' = "printed"
    /\ trace' = Append(trace, "print")
    /\ UNCHANGED <<dialect, arg, matchers, processed, table, occurrences, expr,
                   sortedMatchers, parsed, todo, visited, result, err, call,
                   first>>
    /\ UNCHANGED <<rvars, cvars, bvars, svars, mvars>>

\* restoreGrafanaVariablesPromQL / restoreGrafanaVariables and the return;
\* `order` is the order the runtime ranges over the duration map in
Decode ==
    /\ pc = "printed"
    /\ IF dialect = "promql"
       THEN \E order \in Orders(DOMAIN buildDurationMap(occurrences)) :
                result' = restoreGrafanaVariablesPromQL(printed, occurrences, order)
       ELSE \E order \in Orders(DOMAIN buildLogQLDurationMap(occurrences)) :
                result' = restoreGrafanaVariables(printed, occurrences, order)
    /\ err' = ErrNone
    /\ pc' = "done"
    /\ trace' = Append(trace, "decode")
    /\ UNCHANGED <<dialect, arg, matchers, processed, table, occurrences, expr,
                   sortedMatchers, parsed, todo, visited, printed, call, first>>
    /\ UNCHANGED <<rvars, cvars, bvars, svars, mvars>>

\* the caller makes the same call again on the same receiver
Again ==
    /\ pc = "done"
    /\ call = 1
    /\ first' = [result |-> result, err |-> err]
    /\ call' = call + 1
    /\ pc' = "start"
    /\ processed' = <<>>
    /\ table' = NewTable
    /\ occurrences' = EmptyMap
    /\ parsed' = Nil
    /\ todo' = <<>>
    /\ visited' = <<>>
    /\ printed' = <<>>
    /\ result' = <<>>
    /\ err' = ErrNone
    /\ trace' = <<>>
    /\ UNCHANGED <<dialect, arg, matchers, expr, sortedMatchers>>
    /\ UNCHANGED <<rvars, cvars, bvars, svars, mvars>>

Next == Check \/ Encode \/ Parse \/ Inject \/ String \/ Decode \/ Again

Spec == Init /\ [][Next]_vars

(***************************************************************************)
(* Properties                                                              *)
(***************************************************************************)
SelectorAt(e, path) ==
    IF dialect = "promql" THEN NodeAt(e, path) ELSE LogNodeAt(e, path)
MatchersOf(sel) == IF dialect = "promql" THEN sel.LabelMatchers ELSE sel.Mts
Named(ms, key) == SelectSeq(ms, LAMBDA m : m.Name = key)
IsPrefix(a, b) == Len(a) <= Len(b) /\ SubSeq(b, 1, Len(a)) = a
Succeeded == pc = "done" /\ err = ErrNone
Failed == pc = "done" /\ err # ErrNone

\* C1: in both dialects a call of injectLabelMatcher on a selector treats
\* every key k of the injection set so: if the selector has a matcher named
\* k, whatever its operator, the matchers named k stay as they are; if not,
\* exactly one matcher named k is there afterwards, and it is k = v.
C1_InjectionPolicy ==
    [][Inject =>
        LET before == MatchersOf(SelectorAt(expr, Head(todo)))
            after == MatchersOf(SelectorAt(expr', Head(todo)))
        IN  \A k \in DOMAIN matchers :
                IF \E j \in 1..Len(before) : before[j].Name = k
                THEN Named(after, k) = Named(before, k)
                ELSE Named(after, k) = <<Matcher(MatchEqual, k, matchers[k])>>
    ]_vars

\* a call has returned in which a selector had "env" with another operator
\* than "=" and lacked "zone", both keys of the injection set: "env" was
\* skipped and "zone" appended
C1_Witness ==
    /\ Succeeded
    /\ DOMAIN matchers = {"env", "zone"}
    /\ \E i \in 1..Len(visited) :
          LET before == MatchersOf(SelectorAt(parsed, visited[i]))
              after == MatchersOf(SelectorAt(expr, visited[i]))
          IN  /\ \E j \in 1..Len(before) :
                    before[j].Name = "env" /\ before[j].Type # MatchEqual
              /\ Named(after, "env") = Named(before, "env")
              /\ Named(after, "zone") = <<Matcher(MatchEqual, "zone", InjectValue)>>

\* C2: a call of injectLabelMatcher only adds: the matchers the selector had
\* are all still there, unchanged and in the order they had, in front of
\* the appended ones; nothing else in the tree changes.
C2_PurelyAdditive ==
    [][Inject =>
        LET before == SelectorAt(expr, Head(todo))
            after == SelectorAt(expr', Head(todo))
        IN  /\ IsPrefix(MatchersOf(before), MatchersOf(after))
            /\ IF dialect = "promql"
               THEN /\ after = [before EXCEPT !.LabelMatchers = after.LabelMatchers]
                    /\ expr' = ReplaceAt(expr, Head(todo), after)
               ELSE /\ after = [before EXCEPT !.Mts = after.Mts]
                    /\ expr' = LogReplaceAt(expr, Head(todo), after)
    ]_vars

\* a call has returned in which a selector with job="x", env="y" was
\* injected with "env" and "zone": it still starts with job="x", env="y"
C2_Witness ==
    /\ Succeeded
    /\ DOMAIN matchers = {"env", "zone"}
    /\ \E i \in 1..Len(visited) :
          LET before == MatchersOf(SelectorAt(parsed, visited[i]))
              after == MatchersOf(SelectorAt(expr, visited[i]))
          IN  /\ Len(before) >= 2
              /\ before[1] = Matcher(MatchEqual, "job", <<W("x")>>)
              /\ before[2] = Matcher(MatchEqual, "env", <<W("y")>>)
              /\ Len(after) > Len(before)
              /\ SubSeq(after, 1, 2) = SubSeq(before, 1, 2)

\* every position of a tree, as the path of child indices that leads to it
RECURSIVE AllPaths(_)
AllPaths(node) ==
    LET cs == IF dialect = "promql" THEN Children(node) ELSE LogChildren(node)
    IN  {<<>>} \cup UNION {{<<c>> \o p : p \in AllPaths(cs[c])} : c \in 1..Len(cs)}
IsSelector(node) ==
    node.type = (IF dialect = "promql" THEN "VectorSelector" ELSE "MatchersExpr")
Occurrences(seq, x) == Cardinality({i \in 1..Len(seq) : seq[i] = x})
WalkDone == (pc = "walk" /\ todo = <<>>) \/ pc = "printed" \/ Succeeded

\* C3: when the walk is over, injectLabelMatcher has been called exactly
\* once on every selector of the parsed tree, at whatever depth it lies,
\* and on nothing else.
C3_EverySelectorOnce ==
    WalkDone =>
        \A p \in AllPaths(parsed) :
            Occurrences(visited, p) = IF IsSelector(SelectorAt(parsed, p)) THEN 1 ELSE 0

\* a PromQL call has returned whose tree has two selectors, each three
\* levels down (the operands of a binary operator, under a function and a
\* range), and both were visited
C3_Witness ==
    /\ Succeeded
    /\ dialect = "promql"
    /\ parsed.type = "BinaryExpr"
    /\ Len(visited) = 2
    /\ visited[1] # visited[2]
    /\ \A i \in 1..2 : Len(visited[i]) = 3 /\ IsSelector(SelectorAt(parsed, visited[i]))

\* C4: calling injectLabelMatcher again on a selector it has been called on
\* changes nothing, whatever order the runtime ranges over the map in.
C4_InjectorIdempotent ==
    pc \in {"walk", "printed", "done"} =>
        \A i \in 1..Len(visited) :
            LET sel == SelectorAt(expr, visited[i])
            IN  IF dialect = "promql"
                THEN \A order \in Orders(DOMAIN matchers) :
                         promInjectLabelMatcher(sel, matchers, order) = sel
                ELSE logInjectLabelMatcher(sel, matchers, sortedMatchers) = sel

\* the walk has appended two matchers to a selector, and is over
C4_Witness ==
    /\ WalkDone
    /\ \E i \in 1..Len(visited) :
          Len(MatchersOf(SelectorAt(expr, visited[i])))
              = Len(MatchersOf(SelectorAt(parsed, visited[i]))) + 2

\* C5: two calls of Transform with the same query and the same injection
\* set return the same string and the same error, whatever orders the
\* runtime ranges over the maps in.
C5_Deterministic ==
    (call = 2 /\ pc = "done") => result = first.result /\ err = first.err

\* C6: whenever Transform returns an error, the string it returns is the
\* query it was given, not the encoded text.
C6_ErrorReturnsInput == Failed => result = arg

\* a call has failed in the parser on a text Encode had changed
C6_Witness ==
    /\ Failed
    /\ err = ErrParse
    /\ processed # arg
    /\ table.counter > PlaceholderBase
    /\ result = arg

StructuralErrors == {ErrFunctionName, ErrGrouping, ErrMetricStart}

\* C7: in the PromQL Transform a query in which one of the three patterns
\* of checkUnsupportedVariables matches is rejected by the check, before
\* Encode and the parser run: the call is over after the one step, the
\* query is returned as given, and the error is that of the first pattern
\* that matches, in the order function name, grouping, metric-name start;
\* the three errors differ.  No other query gets one of these errors.
C7_StructuralRejection ==
    (dialect = "promql" /\ pc # "start") =>
        LET fn == functionNamePattern(arg)
            grp == groupingLabelPattern(arg)
            mn == metricNameStartPattern(arg)
        IN  /\ Cardinality(StructuralErrors) = 3
            /\ IF fn \/ grp \/ mn
               THEN /\ pc = "done"
                    /\ trace = <<"check">>
                    /\ processed = <<>>
                    /\ result = arg
                    /\ err = IF fn THEN ErrFunctionName
                             ELSE IF grp THEN ErrGrouping ELSE ErrMetricStart
               ELSE err \notin StructuralErrors

\* a PromQL call was rejected for a variable as function name in a query
\* that also has a variable in a grouping clause
C7_Witness ==
    /\ dialect = "promql"
    /\ Failed
    /\ functionNamePattern(arg)
    /\ groupingLabelPattern(arg)
    /\ err = ErrFunctionName
    /\ trace = <<"check">>

\* a query whose function name is a variable, as $fn(metric[5m])
FunctionNameIsVariable == Len(arg) >= 2 /\ varPattern(arg[1]) /\ arg[2] = P("(")

VarsOf(q) == {q[i] : i \in {j \in 1..Len(q) : varPattern(q[j])}}
IsPlaceholderTok(t) == t.k \in {"num", "dur", "ph"} /\ t.n >= PlaceholderBase
\* the table without the entries that record the quoting
PlainKeys(replacements) == {key \in DOMAIN replacements : ~IsQuotedKey(key)}

SupportedPlacements ==
    IF dialect = "promql" THEN checkUnsupportedVariables(arg) = ErrNone
    ELSE LogParseExpr(processed).ok

\* Decode applied to what Encode returned
DecodeOfEncode(order) ==
    IF dialect = "promql"
    THEN restoreGrafanaVariablesPromQL(processed, occurrences, order)
    ELSE restoreGrafanaVariables(processed, occurrences, order)
DurationMapKeys ==
    DOMAIN (IF dialect = "promql" THEN buildDurationMap(occurrences)
            ELSE buildLogQLDurationMap(occurrences))

\* C10: for a query whose variables are all in supported placements,
\* Decode(Encode(q)) is q, token for token, white space and quotes
\* included, in both codecs.
C10_RoundTrip ==
    (pc = "encoded" /\ SupportedPlacements) =>
        \A order \in Orders(DurationMapKeys) : DecodeOfEncode(order) = arg

\* the lexemes a normalized placeholder duration is printed with
NormalizedParts == UNION {Range(nd) : nd \in DurationMapKeys}

\* C11: when Transform succeeds every variable of the query is in the
\* returned string as often as it is in the query, and the returned string
\* has no placeholder and no piece of a normalized placeholder duration
\* left in it.
C11_VariablesPreserved ==
    Succeeded =>
        /\ \A v \in Vars : Occurrences(result, v) = Occurrences(arg, v)
        /\ \A i \in 1..Len(result) :
               ~IsPlaceholderTok(result[i]) /\ result[i] \notin NormalizedParts

\* the number of double quotes in front of position i is odd
InsideQuotes(q, i) ==
    Cardinality({j \in 1..(i - 1) : q[j] = Quote}) % 2 = 1

\* how often the variable v stands inside (quoted) or outside double quotes
QuotedOccurrences(q, v, quoted) ==
    Cardinality({i \in 1..Len(q) : q[i] = v /\ InsideQuotes(q, i) = quoted})

\* C12: when the LogQL Transform succeeds every variable stands inside
\* double quotes in the returned string as often as it does in the query,
\* and bare as often as it does in the query.
C12_QuotingReproduced ==
    (dialect = "logql" /\ Succeeded) =>
        \A v \in Vars : \A quoted \in BOOLEAN :
            QuotedOccurrences(result, v, quoted) = QuotedOccurrences(arg, v, quoted)

\* the label names of the matchers written in a text, in text order
MatcherNames(text) ==
    LET at == SelectSeq([i \in 1..Len(text) |-> i],
                  LAMBDA i : /\ text[i].k = "w"
                             /\ i + 1 <= Len(text)
                             /\ text[i + 1].k = "p" /\ text[i + 1].s \in MatchOps)
    IN  [j \in 1..Len(at) |-> text[at[j]].s]

NamesOf(ms) == [j \in 1..Len(ms) |-> ms[j].Name]
Ascending(names) ==
    \A a, b \in 1..Len(names) : a < b => LabelRank(names[a]) < LabelRank(names[b])

\* what the printer writes for one selector
SelectorString(sel) ==
    IF dialect = "promql" THEN VectorSelectorString(sel) ELSE MatchersExprString(sel)

\* the names a selector of the parsed tree shows in print
ShownBefore(path) ==
    SelectSeq(NamesOf(MatchersOf(SelectorAt(parsed, path))),
              LAMBDA n : n # MetricName)

Appended(path) ==
    SubSeq(MatchersOf(SelectorAt(expr, path)),
           Len(MatchersOf(SelectorAt(parsed, path))) + 1,
           Len(MatchersOf(SelectorAt(expr, path))))

\* C14: in both dialects the matchers injectLabelMatcher has appended to a
\* selector stand in the tree in ascending order of their names, whatever
\* order the runtime ranges over the injection set in.
C14_InjectedInNameOrder ==
    \A i \in 1..Len(visited) : Ascending(NamesOf(Appended(visited[i])))

(***************************************************************************)
(* Rule validation (package lokiruler, LogQL.ValidateRules)                *)
(***************************************************************************)
MaxGroups == 3
MaxRules == 2

\* label and annotation values: plain text, a template, a template whose
\* action is not closed, and a text that is not valid UTF-8
Plain == <<"page">>
Templ == <<"{{", "$labels.job", "}}">>
BadTempl == <<"{{", "$labels.job">>
NotUTF8 == <<"0xff">>

\* the expressions of the rules: none, {app="x"} and {app="x"
ExprEmpty == <<>>
ExprGood == <<P("{"), W("app"), P("=")>> \o Str(<<W("x")>>) \o <<P("}")>>
ExprBad == <<P("{"), W("app"), P("=")>> \o Str(<<W("x")>>)

RuleNode(record, alert, expression, for, labels, annotations) ==
    [Record |-> record, Alert |-> alert, Expr |-> expression, For |-> for,
     Labels |-> labels, Annotations |-> annotations]

RuleSet ==
    {RuleNode("", "HighErrors", ExprGood, 1, "team" :> Templ, "summary" :> Plain),
     RuleNode("", "HighErrors", ExprGood, 0,
              ("team" :> BadTempl) @@ ("severity" :> BadTempl),
              "summary" :> BadTempl),
     RuleNode("", "HighErrors", ExprBad, 0, EmptyMap, "" :> Plain),
     RuleNode("job:rec", "", ExprGood, 0, "" :> Plain, "summary" :> Plain),
     RuleNode("job:rec", "", ExprGood, 0, "team" :> BadTempl, EmptyMap),
     RuleNode("job:rec", "", ExprGood, 1, "__name__" :> Plain, EmptyMap),
     RuleNode("job:rec", "HighErrors", ExprEmpty, 0, "team" :> NotUTF8, EmptyMap),
     RuleNode("", "", ExprGood, 0, EmptyMap, EmptyMap),
     RuleNode("0xff", "", ExprGood, 0, EmptyMap, EmptyMap)}

GroupNames == {"", "testgroup"}

SeqsUpTo(S, n) == UNION {[1..k -> S] : k \in 0..n}

RuleGroup(name, rules) == [Name |-> name, Rules |-> rules]

\* the lists of k groups with at most `budget` rules in all
RECURSIVE GroupSeqs(_, _)
GroupSeqs(k, budget) ==
    IF k = 0 THEN {<<>>}
    ELSE UNION {{<<RuleGroup(n, rs)>> \o rest :
                     rest \in GroupSeqs(k - 1, budget - Len(rs))} :
                n \in GroupNames, rs \in SeqsUpTo(RuleSet, budget)}

\* the files that decode: at most MaxGroups groups, MaxRules rules in all
RuleFiles == UNION {GroupSeqs(k, MaxRules) : k \in 0..MaxGroups}

\* a file: whether the strict decoder accepts it, and the groups the
\* decoder has filled in when it stops
Files ==
    {[ok |-> TRUE, Groups |-> gs] : gs \in RuleFiles}
    \cup {[ok |-> FALSE, Groups |-> gs] : gs \in {f \in RuleFiles : Len(f) <= 1}}

NoError == [msg |-> "nil", arg |-> "", idx |-> 0]
Errorf(msg, a, idx) == [msg |-> msg, arg |-> a, idx |-> idx]
Wrapf(error, msg, a) == [msg |-> msg, arg |-> a, idx |-> 0]
ErrDecode == Errorf("yaml: unmarshal errors", "", 0)
\* errors.Wrapf(err, fmt.Sprintf("could not parse expression for record
\* '%s' in group '%s'", r.Record.Value, groupName))
ParseError(record, groupName) ==
    [msg |-> "could not parse expression", arg |-> groupName, idx |-> 0,
     record |-> record]

\* model.LabelName(k).IsValid(), for the names used here: the empty name is
\* invalid under either validation scheme
LabelNameIsValid(k) == k # ""
\* model.LabelValue(v).IsValid(): utf8.ValidString
LabelValueIsValid(v) == "0xff" \notin Range(v)
\* the record names used here that are no metric names: a name that is not
\* valid UTF-8 is invalid under either validation scheme
InvalidMetricNames == {"0xff"}
\* a check of the record name that accepts every name
anyMetricName(name) == TRUE
\* model.IsValidMetricName, for the names used here
IsValidMetricName(name) == name # "" /\ name \notin InvalidMetricNames

\* tmpl.ParseTest(): every action that is opened is closed
ParseTest(text) ==
    LET delims == SelectSeq(text, LAMBDA t : t \in {"{{", "}}"})
    IN  /\ Len(delims) % 2 = 0
        /\ \A i \in 1..Len(delims) :
               delims[i] = IF i % 2 = 1 THEN "{{" ELSE "}}"

\* the loop over rl.Labels, then the loop over rl.Annotations, each in the
\* order the runtime ranges over the map in
testTemplateParsing(rl, labelOrder, annotationOrder) ==
    IF rl.Alert = "" THEN <<>>
    ELSE LET bad(m, order, what) ==
                 LET failing == SelectSeq(order, LAMBDA k : ~ParseTest(m[k]))
                 IN  [j \in 1..Len(failing) |-> Wrapf(NoError, what, failing[j])]
         IN  bad(rl.Labels, labelOrder, "label")
             \o bad(rl.Annotations, annotationOrder, "annotation")

\* the loop over r.Labels: the first error in the order given
RECURSIVE labelsError(_, _)
labelsError(labels, order) ==
    IF order = <<>> THEN NoError
    ELSE IF ~LabelNameIsValid(Head(order)) \/ Head(order) = MetricName
    THEN Errorf("invalid label name", Head(order), 0)
    ELSE IF ~LabelValueIsValid(labels[Head(order)])
    THEN Errorf("invalid label value", Head(order), 0)
    ELSE labelsError(labels, Tail(order))

\* the loop over r.Annotations
annotationsError(order) ==
    LET invalid == SelectSeq(order, LAMBDA k : ~LabelNameIsValid(k))
    IN  IF invalid = <<>> THEN NoError
        ELSE Errorf("invalid annotation name", Head(invalid), 0)

\* returns the first error only
firstOnly(es) == IF es = <<>> THEN NoError ELSE Head(es)

\* validateRuleNode; the orders are those the runtime ranges over r.Labels
\* and r.Annotations in, in validateRuleNode and in testTemplateParsing
validateRuleNode(r, groupName, lo, ao, tlo, tao) ==
    IF r.Record # "" /\ r.Alert # ""
    THEN Errorf("only one of 'record' and 'alert' must be set", "", 0)
    ELSE IF r.Record = "" /\ r.Alert = ""
    THEN Errorf("one of 'record' or 'alert' must be set", "", 0)
    ELSE IF r.Expr = ExprEmpty
    THEN Errorf("field 'expr' must be set in rule", "", 0)
    ELSE IF ~LogParseExpr(r.Expr).ok
    THEN ParseError(r.Record, groupName)
    ELSE IF r.Record # "" /\ DOMAIN r.Annotations # {}
    THEN Errorf("invalid field 'annotations' in recording rule", "", 0)
    ELSE IF r.Record # "" /\ r.For # 0
    THEN Errorf("invalid field 'for' in recording rule", "", 0)
    ELSE IF r.Record # "" /\ ~IsValidMetricName(r.Record)
    THEN Errorf("invalid recording rule name", r.Record, 0)
    ELSE IF labelsError(r.Labels, lo) # NoError THEN labelsError(r.Labels, lo)
    ELSE IF annotationsError(ao) # NoError THEN annotationsError(ao)
    ELSE firstOnly(testTemplateParsing(r, tlo, tao))

NilGroups == [nil |-> TRUE, Groups |-> <<>>]
Pointer(gs) == [nil |-> FALSE, Groups |-> gs]
NilError == [nil |-> TRUE, errs |-> <<>>]

InitRules ==
    /\ data \in Files
    /\ rpc = "start"
    /\ groups = <<>>
    /\ gi = 0
    /\ ri = 0
    /\ set = {}
    /\ errs = <<>>
    /\ rg = NilGroups
    /\ rerr = NilError
    /\ checked = <<>>
    /\ TransformIdle /\ ThreadsIdle /\ BuilderIdle
    /\ SharedIdle /\ CliIdle

\* hands out what the decoder has filled in
partialGroups(gs) == Pointer(gs)
\* what parseRules returns when Decode has failed
decodeFailure(gs) == NilGroups

\* parseRules up to the call of ValidateGroups: the strict Decode and the
\* early return
DecodeRules ==
    /\ rpc = "start"
    /\ groups' = data.Groups
    /\ IF ~data.ok
       THEN /\ errs' = <<ErrDecode>>
            /\ rg' = decodeFailure(data.Groups)
            /\ rpc' = "return"
       ELSE /\ errs' = <<>>
            /\ rg' = Pointer(data.Groups)
            /\ rpc' = "groups"
    /\ UNCHANGED <<data, gi, ri, set, checked, rerr, tvars, cvars, bvars, svars, mvars>>

\* reports a repeated name without saying which
groupNameErrorsUnnamed(g, i, seen) ==
    (IF g.Name = "" THEN <<Errorf("Groupname must not be empty", "", i)>>
     ELSE <<>>)
    \o (IF g.Name \in seen
        THEN <<Errorf("is repeated in the same file", "", 0)>>
        ELSE <<>>)

\* the checks ValidateGroups makes on the name of group gi
groupNameErrors(g, i, seen) ==
    (IF g.Name = "" THEN <<Errorf("Groupname must not be empty", "", i)>>
     ELSE <<>>)
    \o (IF g.Name \in seen
        THEN <<Errorf("is repeated in the same file", g.Name, 0)>>
        ELSE <<>>)

\* ValidateGroups: the head of the loop over the groups
ValidateGroup ==
    /\ rpc = "groups"
    /\ gi < Len(groups)
    /\ errs' = errs \o groupNameErrors(groups[gi + 1], gi, set)
    /\ set' = set \cup {groups[gi + 1].Name}
    /\ ri' = 0
    /\ rpc' = "rules"
    /\ UNCHANGED <<data, groups, gi, rg, rerr, checked, tvars, cvars, bvars, svars, mvars>>

\* ValidateGroups: one turn of the loop over the rules of group gi
ValidateRule ==
    /\ rpc = "rules"
    /\ ri < Len(groups[gi + 1].Rules)
    /\ \E r \in {groups[gi + 1].Rules[ri + 1]} :
       \E lo \in Orders(DOMAIN r.Labels), ao \in Orders(DOMAIN r.Annotations) :
       \E tlo \in Orders(DOMAIN r.Labels), tao \in Orders(DOMAIN r.Annotations) :
       \E e \in {validateRuleNode(r, groups[gi + 1].Name, lo, ao, tlo, tao)} :
           errs' = IF e # NoError THEN Append(errs, e) ELSE errs
    /\ checked' = Append(checked, <<gi, ri>>)
    /\ ri' = ri + 1
    /\ UNCHANGED <<data, rpc, groups, gi, set, rg, rerr, tvars, cvars, bvars, svars, mvars>>

\* ValidateGroups: the rules of group gi are done
NextGroup ==
    /\ rpc = "rules"
    /\ ri = Len(groups[gi + 1].Rules)
    /\ gi' = gi + 1
    /\ rpc' = "groups"
    /\ UNCHANGED <<data, groups, ri, set, errs, rg, rerr, checked, tvars, cvars,
                   bvars, svars, mvars>>

\* Load and ValidateRules: the errors are formatted and wrapped into one
ReturnRules ==
    /\ \/ rpc = "return"
       \/ rpc = "groups" /\ gi = Len(groups)
    /\ rerr' = IF Len(errs) > 0 THEN [nil |-> FALSE, errs |-> errs] ELSE NilError
    /\ rpc' = "done"
    /\ UNCHANGED <<data, groups, gi, ri, set, errs, rg, checked, tvars, cvars,
                   bvars, svars, mvars>>

NextRules == DecodeRules \/ ValidateGroup \/ ValidateRule \/ NextGroup \/ ReturnRules

SpecRules == InitRules /\ [][NextRules]_vars

(***************************************************************************)
(* Properties of rule validation                                           *)
(***************************************************************************)
Validated == rpc = "done" /\ data.ok
Count(seq, x) == Cardinality({i \in 1..Len(seq) : seq[i] = x})

\* the rules of the file, as <<group index, rule index>>, both from 0
RulesOf(gs) ==
    UNION {{<<i - 1, j - 1>> : j \in 1..Len(gs[i].Rules)} : i \in 1..Len(gs)}

\* the groups whose name an earlier group of the file has
Repeating(gs, name) ==
    {i \in 1..Len(gs) : gs[i].Name = name /\ \E h \in 1..(i - 1) : gs[h].Name = name}

\* C15: when the file decodes, ValidateRules reports every group whose name
\* an earlier group of the file has, with an error that carries that name,
\* once per such group, and every group with an empty name, with an error
\* that carries its index; the validation goes on after either error:
\* validateRuleNode is called on every rule of every group, once and in the
\* order of the file, those of the reported groups and of the groups after
\* them included.  The errors are in the error returned.
C15_GroupNameErrors ==
    Validated =>
        /\ \A name \in GroupNames :
               Count(errs, Errorf("is repeated in the same file", name, 0))
                   = Cardinality(Repeating(groups, name))
        /\ \A i \in 0..(Len(groups) - 1) :
               Count(errs, Errorf("Groupname must not be empty", "", i))
                   = IF groups[i + 1].Name = "" THEN 1 ELSE 0
        /\ Range(checked) = RulesOf(groups)
        /\ Len(checked) = Cardinality(RulesOf(groups))
        /\ \A a, b \in 1..Len(checked) :
               a < b => \/ checked[a][1] < checked[b][1]
                        \/ checked[a][1] = checked[b][1] /\ checked[a][2] < checked[b][2]
        /\ rerr.errs = errs
        /\ (errs # <<>>) => ~rerr.nil

\* a file of three groups has been validated: the second has the name of
\* the first and a rule, the third has a rule too, and both rules were
\* checked after the repeated name was reported
C15_Witness ==
    /\ Validated
    /\ Len(groups) = 3
    /\ groups[1].Name = "testgroup" /\ groups[2].Name = "testgroup"
    /\ Len(groups[2].Rules) = 1 /\ Len(groups[3].Rules) = 1
    /\ Count(rerr.errs, Errorf("is repeated in the same file", "testgroup", 0)) >= 1
    /\ checked = << <<1, 0>>, <<2, 0>> >>

\* the template errors testTemplateParsing is to report for a rule
TemplateViolations(r) ==
    IF r.Alert = "" THEN {}
    ELSE {Wrapf(NoError, "label", k) :
              k \in {x \in DOMAIN r.Labels : ~ParseTest(r.Labels[x])}}
         \cup {Wrapf(NoError, "annotation", k) :
                   k \in {x \in DOMAIN r.Annotations : ~ParseTest(r.Annotations[x])}}

\* every violation a rule has, each with the error the check for it gives
Violations(r, groupName) ==
    (IF r.Record # "" /\ r.Alert # ""
     THEN {Errorf("only one of 'record' and 'alert' must be set", "", 0)} ELSE {})
    \cup (IF r.Record = "" /\ r.Alert = ""
          THEN {Errorf("one of 'record' or 'alert' must be set", "", 0)} ELSE {})
    \cup (IF r.Expr = ExprEmpty
          THEN {Errorf("field 'expr' must be set in rule", "", 0)}
          ELSE IF ~LogParseExpr(r.Expr).ok
          THEN {ParseError(r.Record, groupName)}
          ELSE {})
    \cup (IF r.Record # "" /\ DOMAIN r.Annotations # {}
          THEN {Errorf("invalid field 'annotations' in recording rule", "", 0)}
          ELSE {})
    \cup (IF r.Record # "" /\ r.For # 0
          THEN {Errorf("invalid field 'for' in recording rule", "", 0)} ELSE {})
    \cup (IF r.Record # "" /\ ~IsValidMetricName(r.Record)
          THEN {Errorf("invalid recording rule name", r.Record, 0)} ELSE {})
    \cup {Errorf("invalid label name", k, 0) :
              k \in {x \in DOMAIN r.Labels : ~LabelNameIsValid(x) \/ x = MetricName}}
    \cup {Errorf("invalid label value", k, 0) :
              k \in {x \in DOMAIN r.Labels : ~LabelValueIsValid(r.Labels[x])}}
    \cup {Errorf("invalid annotation name", k, 0) :
              k \in {x \in DOMAIN r.Annotations : ~LabelNameIsValid(x)}}
    \cup TemplateViolations(r)

\* C16: when the file decodes, the error ValidateRules returns carries
\* every violation of every rule of the file: a rule that violates several
\* checks has each of its violations in the aggregate.
C16_EveryViolationReported ==
    Validated =>
        \A p \in RulesOf(groups) :
            Violations(groups[p[1] + 1].Rules[p[2] + 1], groups[p[1] + 1].Name)
                \subseteq Range(rerr.errs)

\* the file has a group or a rule that violates a check
FileHasViolation(gs) ==
    \/ \E i \in 1..Len(gs) : gs[i].Name = ""
    \/ \E name \in GroupNames : Repeating(gs, name) # {}
    \/ \E p \in RulesOf(gs) :
           Violations(gs[p[1] + 1].Rules[p[2] + 1], gs[p[1] + 1].Name) # {}

\* C17: ValidateRules returns nil rule groups exactly when the decoding
\* failed; then no group and no rule was checked and the error is the
\* decoder's.  When the decoding succeeded it returns all the groups of the
\* file, and an error exactly when a group or a rule of the file violates a
\* check.
C17_NilGroupsIffDecodeFailed ==
    rpc = "done" =>
        /\ rg.nil <=> ~data.ok
        /\ ~data.ok => /\ rerr = [nil |-> FALSE, errs |-> <<ErrDecode>>]
                       /\ checked = <<>> /\ set = {}
        /\ data.ok => /\ rg = Pointer(data.Groups)
                      /\ ~rerr.nil <=> FileHasViolation(data.Groups)

\* the decoder has failed after it had filled in a group with a rule, and
\* ValidateRules has returned nil and the decoder's error
C17_Witness ==
    /\ rpc = "done"
    /\ ~data.ok
    /\ Len(groups) = 1 /\ Len(groups[1].Rules) >= 1
    /\ rg = NilGroups
    /\ rerr.errs = <<ErrDecode>>

\* the rules that reach the template check: no other check fails
ReachesTemplateCheck(r, groupName) ==
    Violations(r, groupName) = TemplateViolations(r)

\* C18: for an alerting rule that passes the other checks, every label and
\* every annotation whose value fails the template parse has its own error,
\* tagged with its key, in the error returned; no rule that is not an
\* alerting rule gets a template error.
C18_TemplateErrorPerKey ==
    Validated =>
        /\ \A p \in RulesOf(groups) :
               LET r == groups[p[1] + 1].Rules[p[2] + 1]
               IN  ReachesTemplateCheck(r, groups[p[1] + 1].Name) =>
                       TemplateViolations(r) \subseteq Range(rerr.errs)
        /\ (\A p \in RulesOf(groups) : groups[p[1] + 1].Rules[p[2] + 1].Alert = "")
               => \A i \in 1..Len(errs) : errs[i].msg \notin {"label", "annotation"}

(***************************************************************************)
(* Two Transform calls in two threads.  The fields of a Checker value are  *)
(* references: p.expr to an expression of the heap, p.matchers to the map  *)
(* of the thread that passed it, p.sortedMatchers to the slice sm of the   *)
(* thread that made it.  A step is one statement that reads or writes a    *)
(* field of the receiver, with the thread's own work before it, and the    *)
(* steps of the two threads interleave.                                    *)
(***************************************************************************)
NumThreads == 2
NumReceivers == 2
Threads == 1..NumThreads
Receivers == 1..NumReceivers
NilAddr == 0

\* the queries the threads call Transform with: a selector, a selector
\* under a function with a variable, and a query the parser rejects
ConcQueries(d) ==
    IF d = "promql"
    THEN {<<W("up")>>,
          PromRate(W("rate"), <<W("up")>>,
                   <<P("{"), W("job"), P("=")>> \o Str(<<V(VarNames[1])>>)
                       \o <<P("}")>>,
                   <<Dur(5, "m")>>),
          <<W("up"), P("{"), W("job"), P("=")>> \o Str(<<W("x")>>)}
    ELSE {<<P("{"), W("app"), P("=")>> \o Str(<<W("x")>>) \o <<P("}")>>,
          LogRate(W("rate"),
                  <<P("{"), W("app"), P("=")>> \o Str(<<V(VarNames[1])>>)
                      \o <<P("}")>>,
                  <<>>, <<Dur(5, "m")>>),
          <<P("{"), W("app"), P("=")>> \o Str(<<W("x")>>)}

\* the injection sets the threads pass: one key each
ConcInjections == {m \in InjectionSets : Cardinality(DOMAIN m) = 1}

\* a thread about to call Transform(q, &m) on the Checker value r
ThreadStart(r, q, m) ==
    [r |-> r, arg |-> q, matchers |-> m, pc |-> "start",
     occurrences |-> EmptyMap, sm |-> <<>>, root |-> NilAddr, todo |-> <<>>,
     touched |-> {}, result |-> <<>>, err |-> ErrNone]

\* a Checker value: &PromQL{} or &LogQL{}
NewChecker(d) ==
    [dialect |-> d, expr |-> NilAddr, matchers |-> NilAddr,
     sortedMatchers |-> NilAddr]

\* the first thread calls on the first Checker value, the others on any
InitConc ==
    /\ recv \in [Receivers -> {NewChecker(d) : d \in Dialects}]
    /\ heap = [a \in Threads |-> Nil]
    /\ th \in {f \in [Threads ->
                        UNION {{ThreadStart(r, q, m) :
                                   q \in ConcQueries(recv[r].dialect),
                                   m \in ConcInjections} : r \in Receivers}] :
                  f[1].r = 1}
    /\ TransformIdle /\ RulesIdle /\ BuilderIdle
    /\ SharedIdle /\ CliIdle

\* m[key] of a Go map: the zero value for a key the map does not have
ZeroValue(m, keys) ==
    [k \in DOMAIN m \cup keys |-> IF k \in DOMAIN m THEN m[k] ELSE <<>>]

\* Transform up to `p.expr = exp`: the check, Encode, the parser, the early
\* returns, and the assignment of the new expression to the receiver
Begin(t) ==
    /\ th[t].pc = "start"
    /\ LET me == th[t]
           d == recv[me.r].dialect
           failed(e, text) ==
               /\ th' = [th EXCEPT ![t].pc = "done", ![t].err = e,
                                   ![t].result = errorReturn(me.arg, text)]
               /\ UNCHANGED <<recv, heap>>
       IN  IF d = "promql" /\ checkUnsupportedVariables(me.arg) # ErrNone
           THEN failed(checkUnsupportedVariables(me.arg), <<>>)
           ELSE \E e \in {IF d = "promql"
                          THEN replaceGrafanaVariablesPromQL(me.arg)
                          ELSE replaceGrafanaVariables(me.arg)} :
                \E r \in {IF d = "promql" THEN PromParseExpr(e.text)
                          ELSE LogParseExpr(e.text)} :
                    IF ~r.ok
                    THEN failed(ErrParse, e.text)
                    ELSE /\ heap' = [heap EXCEPT ![t] = r.node]
                         /\ recv' = [recv EXCEPT ![me.r].expr = t]
                         /\ th' = [th EXCEPT ![t].pc = "matchers",
                                             ![t].occurrences = e.tab.replacements]
    /\ UNCHANGED <<tvars, rvars, bvars, svars, mvars>>

\* keeps the injection set an earlier call has left on the receiver
keepMatchers(t) ==
    /\ th[t].pc = "matchers"
    /\ recv' = [recv EXCEPT ![th[t].r].matchers = IF @ = NilAddr THEN t ELSE @]
    /\ th' = [th EXCEPT ![t].pc = IF recv[th[t].r].dialect = "promql"
                                  THEN "read1" ELSE "sorted"]
    /\ UNCHANGED <<heap, tvars, rvars, bvars, svars, mvars>>

\* `p.matchers = matchers`
SetMatchers(t) ==
    /\ th[t].pc = "matchers"
    /\ recv' = [recv EXCEPT ![th[t].r].matchers = t]
    /\ th' = [th EXCEPT ![t].pc = IF recv[th[t].r].dialect = "promql"
                                  THEN "read1" ELSE "sorted"]
    /\ UNCHANGED <<heap, tvars, rvars, bvars, svars, mvars>>

\* LogQL: the keys are collected from the argument and sorted, and
\* `p.sortedMatchers = &sm`
SetSorted(t) ==
    /\ th[t].pc = "sorted"
    /\ \E order \in Orders(DOMAIN th[t].matchers) :
           th' = [th EXCEPT ![t].sm = SortStrings(order), ![t].pc = "read2"]
    /\ recv' = [recv EXCEPT ![th[t].r].sortedMatchers = t]
    /\ UNCHANGED <<heap, tvars, rvars, bvars, svars, mvars>>

\* a read of p.expr that starts a traversal: PromQL reads it for the test
\* of the top node ("read1") and again for traverseNode ("read2"), LogQL
\* for Walk ("read2"); the selectors found are the calls to come
ReadExpr(t) ==
    /\ th[t].pc \in {"read1", "read2"}
    /\ LET me == th[t]
           a == recv[me.r].expr
           calls == IF me.pc = "read1"
                    THEN IF heap[a].type = "VectorSelector" THEN <<<<>>>> ELSE <<>>
                    ELSE IF recv[me.r].dialect = "promql"
                    THEN traverseNode(heap[a], <<>>)
                    ELSE LogInjectionCalls(heap[a])
       IN  th' = [th EXCEPT ![t].root = a,
                            ![t].todo = calls,
                            ![t].touched = @ \cup {a},
                            ![t].pc = IF calls # <<>>
                                      THEN (IF me.pc = "read1" THEN "inject1"
                                            ELSE "inject2")
                                      ELSE (IF me.pc = "read1" THEN "read2"
                                            ELSE "print")]
    /\ UNCHANGED <<recv, heap, tvars, rvars, bvars, svars, mvars>>

\* one call of injectLabelMatcher: it reads p.matchers (LogQL: and
\* p.sortedMatchers) and appends to the selector it is called on
InjectOne(t) ==
    /\ th[t].pc \in {"inject1", "inject2"}
    /\ LET me == th[t]
           path == Head(me.todo)
           ma == recv[me.r].matchers
           sa == recv[me.r].sortedMatchers
           e == heap[me.root]
       IN  /\ IF recv[me.r].dialect = "promql"
              THEN \E order \in Orders(DOMAIN th[ma].matchers) :
                       heap' = [heap EXCEPT ![me.root] =
                                   ReplaceAt(e, path,
                                       promInjectLabelMatcher(NodeAt(e, path),
                                           th[ma].matchers, order))]
              ELSE heap' = [heap EXCEPT ![me.root] =
                               LogReplaceAt(e, path,
                                   logInjectLabelMatcher(LogNodeAt(e, path),
                                       ZeroValue(th[ma].matchers, Range(th[sa].sm)),
                                       th[sa].sm))]
           /\ th' = [th EXCEPT ![t].todo = Tail(me.todo),
                               ![t].touched =
                                   @ \cup (IF recv[me.r].dialect = "promql"
                                           THEN {ma} ELSE {ma, sa}),
                               ![t].pc = IF Tail(me.todo) # <<>> THEN me.pc
                                         ELSE IF me.pc = "inject1" THEN "read2"
                                         ELSE "print"]
    /\ UNCHANGED <<recv, tvars, rvars, bvars, svars, mvars>>

\* `result := p.expr.String()`, Decode with the thread's own occurrences,
\* and the return
Finish(t) ==
    /\ th[t].pc = "print"
    /\ LET me == th[t]
           a == recv[me.r].expr
       IN  \E text \in {IF recv[me.r].dialect = "promql" THEN PromString(heap[a])
                        ELSE LogString(heap[a])} :
           \E res \in (IF recv[me.r].dialect = "promql"
                       THEN {restoreGrafanaVariablesPromQL(text, me.occurrences, o) :
                                o \in Orders(DOMAIN buildDurationMap(me.occurrences))}
                       ELSE {restoreGrafanaVariables(text, me.occurrences, o) :
                                o \in Orders(DOMAIN buildLogQLDurationMap(me.occurrences))}) :
               th' = [th EXCEPT ![t].result = res,
                                ![t].err = ErrNone,
                                ![t].touched = @ \cup {a},
                                ![t].pc = "done"]
    /\ UNCHANGED <<recv, heap, tvars, rvars, bvars, svars, mvars>>

NextConc ==
    \E t \in Threads :
        \/ Begin(t)
        \/ SetMatchers(t)
        \/ SetSorted(t)
        \/ ReadExpr(t)
        \/ InjectOne(t)
        \/ Finish(t)

SpecConc == InitConc /\ [][NextConc]_vars

\* the calls made one after the other: a call takes a step only when no
\* other call is under way
NoOtherCall(t) == \A u \in Threads \ {t} : th[u].pc \in {"start", "done"}

NextReuse ==
    \E t \in Threads :
        /\ NoOtherCall(t)
        /\ \/ Begin(t)
           \/ SetMatchers(t)
           \/ SetSorted(t)
           \/ ReadExpr(t)
           \/ InjectOne(t)
           \/ Finish(t)

SpecReuse == InitConc /\ [][NextReuse]_vars

(***************************************************************************)
(* Properties of concurrent calls                                          *)
(***************************************************************************)
\* the expressions PromQL's calls of injectLabelMatcher can leave
RECURSIVE PromInjectAll(_, _, _)
PromInjectAll(exp, calls, m) ==
    IF calls = <<>> THEN {exp}
    ELSE UNION {PromInjectAll(
                    ReplaceAt(exp, Head(calls),
                        promInjectLabelMatcher(NodeAt(exp, Head(calls)), m, o)),
                    Tail(calls), m) : o \in Orders(DOMAIN m)}

\* the expression LogQL's calls of injectLabelMatcher leave
RECURSIVE LogInjectAll(_, _, _, _)
LogInjectAll(exp, calls, m, sm) ==
    IF calls = <<>> THEN exp
    ELSE LogInjectAll(
             LogReplaceAt(exp, Head(calls),
                 logInjectLabelMatcher(LogNodeAt(exp, Head(calls)), m, sm)),
             Tail(calls), m, sm)

\* what PromQL.Transform(q, &m) can return when no other call is running
PromAlone(q, m) ==
    IF checkUnsupportedVariables(q) # ErrNone
    THEN {[result |-> q, err |-> checkUnsupportedVariables(q)]}
    ELSE Bind(replaceGrafanaVariablesPromQL(q), LAMBDA e :
         Bind(PromParseExpr(e.text), LAMBDA r :
             IF ~r.ok THEN {[result |-> q, err |-> ErrParse]}
             ELSE {[result |-> restoreGrafanaVariablesPromQL(
                                   PromString(x), e.tab.replacements, o),
                    err |-> ErrNone] :
                      x \in PromInjectAll(r.node, PromInjectionCalls(r.node), m),
                      o \in Orders(DOMAIN buildDurationMap(e.tab.replacements))}))

\* what LogQL.Transform(q, &m) can return when no other call is running
LogAlone(q, m) ==
    Bind(replaceGrafanaVariables(q), LAMBDA e :
    Bind(LogParseExpr(e.text), LAMBDA r :
        IF ~r.ok THEN {[result |-> q, err |-> ErrParse]}
        ELSE {[result |-> restoreGrafanaVariables(
                              LogString(LogInjectAll(r.node,
                                  LogInjectionCalls(r.node), m, SortStrings(so))),
                              e.tab.replacements, o),
               err |-> ErrNone] :
                 so \in Orders(DOMAIN m),
                 o \in Orders(DOMAIN buildLogQLDurationMap(e.tab.replacements))}))

Alone(d, q, m) == IF d = "promql" THEN PromAlone(q, m) ELSE LogAlone(q, m)

\* the call of thread t has returned what it can return when run alone
ReturnsAsAlone(t) ==
    th[t].pc = "done" =>
        [result |-> th[t].result, err |-> th[t].err]
            \in Alone(recv[th[t].r].dialect, th[t].arg, th[t].matchers)

\* thread t has used no expression, injection set or sorted name list but
\* its own
TouchesOwn(t) == th[t].touched \subseteq {t}

\* C19: whatever the interleaving of two Transform calls, on two Checker
\* values or on one, neither call reads or writes the expression, the
\* injection set or the sorted name list of the other, and each returns
\* what it would return if run alone.
C19_ConcurrentCallsIndependent ==
    \A t \in Threads : TouchesOwn(t) /\ ReturnsAsAlone(t)

\* the same for calls on different Checker values only
DistinctReceiversIndependent ==
    (\A t, u \in Threads : t # u => th[t].r # th[u].r)
        => \A t \in Threads : TouchesOwn(t) /\ ReturnsAsAlone(t)

\* both calls on one Checker value have returned, and the first returned
\* what it cannot return alone
SharedReceiverInterference ==
    /\ th[1].r = th[2].r
    /\ \A t \in Threads : th[t].pc = "done"
    /\ ~ReturnsAsAlone(1)

(***************************************************************************)
(* LabelsBuilder.  The slice add is its backing array and its length: the  *)
(* array keeps what was written beyond the length.                         *)
(***************************************************************************)
MaxOps == 5
LabelNames == {"a", "b"}
LabelValues == {"", "1", "2"}
BaseValue == "x"

Label(n, v) == [Name |-> n, Value |-> v]

\* the base label sets ForLabels is called with
BaseLabels == {[n \in ns |-> BaseValue] : ns \in SUBSET LabelNames}

\* b.base.Get(key)
BaseGet(lbs, key) == IF key \in DOMAIN lbs THEN lbs[key] ELSE ""

\* make([]labels.Label, 0, 16)
NewSlice == [arr |-> <<>>, len |-> 0]

\* b.add[:0]
Truncate(a) == [a EXCEPT !.len = 0]

\* append(a, l) within the capacity
AppendLabel(a, l) ==
    [arr |-> IF a.len < Len(a.arr) THEN [a.arr EXCEPT ![a.len + 1] = l]
             ELSE Append(a.arr, l),
     len |-> a.len + 1]

\* append(a[:i], a[i+1:]...), i counted from 1: the elements behind i move
\* down in the array, the last slot keeps its content
RemoveAt(a, i) ==
    [arr |-> [k \in 1..Len(a.arr) |->
                 IF k >= i /\ k < a.len THEN a.arr[k + 1] ELSE a.arr[k]],
     len |-> a.len - 1]

\* the index of the first label named n in a[from..], or 0
RECURSIVE IndexOfName(_, _, _)
IndexOfName(a, n, from) ==
    IF from > a.len THEN 0
    ELSE IF a.arr[from].Name = n THEN from
    ELSE IndexOfName(a, n, from + 1)

NoGet == [called |-> FALSE, key |-> "", val |-> "", ok |-> FALSE]

\* a Get that looks at del before add
GetDelFirst(a, d, lbs, key) ==
    IF \E j \in 1..Len(d) : d[j] = key
    THEN [called |-> TRUE, key |-> key, val |-> "", ok |-> FALSE]
    ELSE IF IndexOfName(a, key, 1) # 0
    THEN [called |-> TRUE, key |-> key,
          val |-> a.arr[IndexOfName(a, key, 1)].Value, ok |-> TRUE]
    ELSE [called |-> TRUE, key |-> key, val |-> BaseGet(lbs, key),
          ok |-> BaseGet(lbs, key) # ""]

\* LabelsBuilder.Get
Get(a, d, lbs, key) ==
    IF IndexOfName(a, key, 1) # 0
    THEN [called |-> TRUE, key |-> key,
          val |-> a.arr[IndexOfName(a, key, 1)].Value, ok |-> TRUE]
    ELSE IF \E j \in 1..Len(d) : d[j] = key
    THEN [called |-> TRUE, key |-> key, val |-> "", ok |-> FALSE]
    ELSE [called |-> TRUE, key |-> key, val |-> BaseGet(lbs, key),
          ok |-> BaseGet(lbs, key) # ""]

\* Del: the loop `for i, a := range b.add` from index i on.  The range
\* expression is evaluated once: the loop runs to the length L the slice
\* had when the loop began and reads the array as it is now.  s is the
\* builder's add and whether a slice expression has failed.
RECURSIVE delRange(_, _, _, _)
delRange(s, n, i, L) ==
    IF s.panic \/ i > L THEN s
    ELSE IF s.add.arr[i].Name # n THEN delRange(s, n, i + 1, L)
    ELSE IF i > s.add.len THEN [s EXCEPT !.panic = TRUE]
    ELSE delRange([s EXCEPT !.add = RemoveAt(s.add, i)], n, i + 1, L)

\* Del: the loop over the names ns
RECURSIVE delNames(_, _)
delNames(s, ns) ==
    IF ns = <<>> \/ s.panic THEN s
    ELSE Bind(delRange(s, Head(ns), 1, s.add.len), LAMBDA r :
             IF r.panic THEN r
             ELSE delNames([r EXCEPT !.del = Append(@, Head(ns))], Tail(ns)))

\* the history of an operation on name n
Record(h, n, op, v) == [h EXCEPT ![n] = [op |-> op, v |-> v]]
NoHistory == [n \in LabelNames |-> [op |-> "none", v |-> ""]]

RECURSIVE RecordDels(_, _)
RecordDels(h, ns) ==
    IF ns = <<>> THEN h ELSE RecordDels(Record(h, Head(ns), "del", ""), Tail(ns))

\* logqlmodel.ErrorLabel
ErrorLabel == "__error__"
ErrValues == {"", "boom"}

\* the order of label names: the byte order of the names in use
NameRank(n) == CASE n = ErrorLabel -> 0 [] n = "a" -> 1 [] n = "b" -> 2

\* labels.New: the labels sorted by name
RECURSIVE InsertLabel(_, _)
InsertLabel(sorted, l) ==
    IF sorted = <<>> THEN <<l>>
    ELSE IF NameRank(l.Name) < NameRank(Head(sorted).Name) THEN <<l>> \o sorted
    ELSE <<Head(sorted)>> \o InsertLabel(Tail(sorted), l)

RECURSIVE LabelsNew(_)
LabelsNew(buf) ==
    IF buf = <<>> THEN <<>>
    ELSE InsertLabel(LabelsNew(SubSeq(buf, 1, Len(buf) - 1)), buf[Len(buf)])

\* labelsToSlice(b.base): the base labels in their order
labelsToSlice(lbs) ==
    LabelsNew(Bind(Orders(DOMAIN lbs), LAMBDA os :
        IF os = {} THEN <<>>
        ELSE Bind(CHOOSE o \in os : TRUE, LAMBDA o :
                 [i \in 1..Len(o) |-> Label(o[i], lbs[o[i]])])))

\* LabelsBuilder.sortedLabels
sortedLabels(a, d, lbs, e) ==
    Bind(labelsToSlice(lbs), LAMBDA baseSlice :
    Bind(IF e # "" THEN <<Label(ErrorLabel, e)>> ELSE <<>>, LAMBDA errLabel :
        IF Len(d) = 0 /\ a.len = 0
        THEN LabelsNew(baseSlice \o errLabel)
        ELSE LabelsNew(
                 SelectSeq(baseSlice, LAMBDA l :
                     /\ ~\E j \in 1..Len(d) : d[j] = l.Name
                     /\ ~\E j \in 1..a.len : a.arr[j].Name = l.Name)
                 \o SubSeq(a.arr, 1, a.len)
                 \o errLabel)))

\* the map Map fills from b.buf.Range: a later label of a name replaces
\* an earlier one
RangeToMap(buf) ==
    [n \in {buf[i].Name : i \in 1..Len(buf)} |->
        buf[CHOOSE i \in 1..Len(buf) :
                /\ buf[i].Name = n
                /\ \A j \in 1..Len(buf) : buf[j].Name = n => j <= i].Value]

\* LabelsBuilder.Map
Map(a, d, lbs, e) ==
    IF Len(d) = 0 /\ a.len = 0 /\ e = ""
    THEN lbs
    ELSE RangeToMap(sortedLabels(a, d, lbs, e))

NoMap == [called |-> FALSE, m |-> <<>>]

\* NewBaseLabelsBuilder().ForLabels(lbs, hash)
InitBuilder ==
    /\ base \in BaseLabels
    /\ add = NewSlice
    /\ del = <<>>
    /\ last = NoHistory
    /\ got = NoGet
    /\ panicked = FALSE
    /\ nops = 0
    /\ berr = ""
    /\ mapped = NoMap
    /\ TransformIdle /\ RulesIdle /\ ThreadsIdle
    /\ SharedIdle /\ CliIdle

\* LabelsBuilder.Set
Set ==
    /\ ~panicked /\ nops < MaxOps
    /\ \E n \in LabelNames, v \in LabelValues :
           /\ add' = IF IndexOfName(add, n, 1) # 0
                     THEN [add EXCEPT !.arr[IndexOfName(add, n, 1)].Value = v]
                     ELSE AppendLabel(add, Label(n, v))
           /\ last' = Record(last, n, "set", v)
    /\ got' = NoGet
    /\ mapped' = NoMap
    /\ nops' = nops + 1
    /\ UNCHANGED <<base, del, panicked, berr, tvars, rvars, cvars, svars, mvars>>

\* LabelsBuilder.Del
Del ==
    /\ ~panicked /\ nops < MaxOps
    /\ \E ns \in SeqsUpTo(LabelNames, 2) \ {<<>>} :
       \E r \in {delNames([add |-> add, del |-> del, panic |-> FALSE], ns)} :
           /\ add' = r.add
           /\ del' = r.del
           /\ panicked' = r.panic
           /\ last' = RecordDels(last, ns)
    /\ got' = NoGet
    /\ mapped' = NoMap
    /\ nops' = nops + 1
    /\ UNCHANGED <<base, berr, tvars, rvars, cvars, svars, mvars>>

\* LabelsBuilder.Reset
Reset ==
    /\ ~panicked /\ nops < MaxOps
    /\ del' = <<>>
    /\ add' = Truncate(add)
    /\ berr' = ""
    /\ last' = NoHistory
    /\ got' = NoGet
    /\ mapped' = NoMap
    /\ nops' = nops + 1
    /\ UNCHANGED <<base, panicked, tvars, rvars, cvars, svars, mvars>>

\* a call of LabelsBuilder.Get
CallGet ==
    /\ ~panicked /\ nops < MaxOps
    /\ \E key \in LabelNames : got' = Get(add, del, base, key)
    /\ mapped' = NoMap
    /\ nops' = nops + 1
    /\ UNCHANGED <<base, add, del, last, panicked, berr, tvars, rvars, cvars, svars, mvars>>

\* LabelsBuilder.SetErr
SetErr ==
    /\ ~panicked /\ nops < MaxOps
    /\ \E e \in ErrValues : berr' = e
    /\ got' = NoGet
    /\ mapped' = NoMap
    /\ nops' = nops + 1
    /\ UNCHANGED <<base, add, del, last, panicked, tvars, rvars, cvars, svars, mvars>>

\* a call of LabelsBuilder.Map
CallMap ==
    /\ ~panicked /\ nops < MaxOps
    /\ mapped' = [called |-> TRUE, m |-> Map(add, del, base, berr)]
    /\ got' = NoGet
    /\ nops' = nops + 1
    /\ UNCHANGED <<base, add, del, last, panicked, berr, tvars, rvars, cvars, svars, mvars>>

NextBuilder == Set \/ Del \/ Reset \/ CallGet \/ SetErr \/ CallMap

SpecBuilder == InitBuilder /\ [][NextBuilder]_vars

(***************************************************************************)
(* The LabelsBuilders of one BaseLabelsBuilder                             *)
(***************************************************************************)
NumBuilders == 2
MaxSharedOps == 4
\* the address of the BaseLabelsBuilder
BaseAddr == 0
\* lbs.Hash(), the hash the caller passes to ForLabels
LabelsHash(lbs) ==
    CASE DOMAIN lbs = {} -> 1
      [] DOMAIN lbs = {"a"} -> 2
      [] DOMAIN lbs = {"b"} -> 3
      [] OTHER -> 4
Addrs == {BaseAddr} \cup {LabelsHash(lbs) : lbs \in BaseLabels}
\* NewBaseLabelsBuilder: the fields del, add and err
NewBaseLabelsBuilder == [add |-> NewSlice, del |-> <<>>, err |-> ""]
\* the field baseMap before Map has filled it
NilMap == [nil |-> TRUE]

\* a ForLabels that gives the builder of every label set a
\* BaseLabelsBuilder of its own
forLabelsOwn(b, lbs, hash) == [base |-> lbs, baseMap |-> NilMap, ptr |-> hash]

\* BaseLabelsBuilder.ForLabels: the LabelsBuilder embeds the pointer b
ForLabels(b, lbs, hash) == [base |-> lbs, baseMap |-> NilMap, ptr |-> b]

\* the fields a LabelsBuilder reaches through the embedded pointer
Embedded(l) == store[l.ptr]

\* LabelsBuilder.GetErr
GetErr(l) == Embedded(l).err

\* LabelsBuilder.Get on the builder l
BuilderGet(l, key) == Get(Embedded(l).add, Embedded(l).del, l.base, key)

\* LabelsBuilder.Map on the builder l
BuilderMap(l) ==
    IF /\ Len(Embedded(l).del) = 0 /\ Embedded(l).add.len = 0
       /\ Embedded(l).err = ""
    THEN IF l.baseMap = NilMap THEN l.base ELSE l.baseMap
    ELSE Map(Embedded(l).add, Embedded(l).del, l.base, Embedded(l).err)

\* the history of an operation on name n made through builder b
RecordBy(h, n, op, v, b) == [h EXCEPT ![n] = [op |-> op, v |-> v, by |-> b]]
NoSharedHistory == [n \in LabelNames |-> [op |-> "none", v |-> "", by |-> 0]]
RECURSIVE RecordDelsBy(_, _, _)
RecordDelsBy(h, ns, b) ==
    IF ns = <<>> THEN h
    ELSE RecordDelsBy(RecordBy(h, Head(ns), "del", "", b), Tail(ns), b)

\* NewBaseLabelsBuilder()
InitShared ==
    /\ store = [a \in Addrs |-> NewBaseLabelsBuilder]
    /\ lb = <<>>
    /\ hist = NoSharedHistory
    /\ herr = [e |-> "", by |-> 0]
    /\ sops = 0
    /\ TransformIdle /\ RulesIdle /\ ThreadsIdle /\ BuilderIdle /\ CliIdle

\* a call of b.ForLabels(lbs, lbs.Hash())
CallForLabels ==
    /\ Len(lb) < NumBuilders
    /\ \E lbs \in BaseLabels :
           lb' = Append(lb, ForLabels(BaseAddr, lbs, LabelsHash(lbs)))
    /\ UNCHANGED <<store, hist, herr, sops, tvars, rvars, cvars, bvars, mvars>>

\* LabelsBuilder.Set through the builder b
SharedSet(b) ==
    /\ sops < MaxSharedOps
    /\ \E n \in LabelNames, v \in LabelValues :
       \E a \in {Embedded(lb[b]).add} :
           /\ store' = [store EXCEPT ![lb[b].ptr].add =
                           IF IndexOfName(a, n, 1) # 0
                           THEN [a EXCEPT !.arr[IndexOfName(a, n, 1)].Value = v]
                           ELSE AppendLabel(a, Label(n, v))]
           /\ hist' = RecordBy(hist, n, "set", v, b)
    /\ sops' = sops + 1
    /\ UNCHANGED <<lb, herr, tvars, rvars, cvars, bvars, mvars>>

\* LabelsBuilder.Del through the builder b
SharedDel(b) ==
    /\ sops < MaxSharedOps
    /\ \E ns \in SeqsUpTo(LabelNames, 2) \ {<<>>} :
       \E r \in {delNames([add |-> Embedded(lb[b]).add,
                           del |-> Embedded(lb[b]).del, panic |-> FALSE], ns)} :
           /\ ~r.panic
           /\ store' = [store EXCEPT ![lb[b].ptr].add = r.add,
                                     ![lb[b].ptr].del = r.del]
           /\ hist' = RecordDelsBy(hist, ns, b)
    /\ sops' = sops + 1
    /\ UNCHANGED <<lb, herr, tvars, rvars, cvars, bvars, mvars>>

\* LabelsBuilder.SetErr through the builder b
SharedSetErr(b) ==
    /\ sops < MaxSharedOps
    /\ \E e \in ErrValues :
           /\ store' = [store EXCEPT ![lb[b].ptr].err = e]
           /\ herr' = [e |-> e, by |-> b]
    /\ sops' = sops + 1
    /\ UNCHANGED <<lb, hist, tvars, rvars, cvars, bvars, mvars>>

\* LabelsBuilder.Reset through the builder b
SharedReset(b) ==
    /\ sops < MaxSharedOps
    /\ store' = [store EXCEPT ![lb[b].ptr].del = <<>>,
                              ![lb[b].ptr].add = Truncate(@),
                              ![lb[b].ptr].err = ""]
    /\ hist' = [n \in LabelNames |-> [op |-> "none", v |-> "", by |-> b]]
    /\ herr' = [e |-> "", by |-> b]
    /\ sops' = sops + 1
    /\ UNCHANGED <<lb, tvars, rvars, cvars, bvars, mvars>>

\* LabelsBuilder.Map through the builder b: without pending changes the
\* builder fills its baseMap
SharedMap(b) ==
    /\ sops < MaxSharedOps
    /\ lb' = IF /\ Len(Embedded(lb[b]).del) = 0 /\ Embedded(lb[b]).add.len = 0
                /\ Embedded(lb[b]).err = "" /\ lb[b].baseMap = NilMap
             THEN [lb EXCEPT ![b].baseMap = lb[b].base]
             ELSE lb
    /\ sops' = sops + 1
    /\ UNCHANGED <<store, hist, herr, tvars, rvars, cvars, bvars, mvars>>

NextShared ==
    \/ CallForLabels
    \/ \E b \in 1..Len(lb) :
           \/ SharedSet(b)
           \/ SharedDel(b)
           \/ SharedSetErr(b)
           \/ SharedReset(b)
           \/ SharedMap(b)

SpecShared == InitShared /\ [][NextShared]_vars

(***************************************************************************)
(* The command line program                                                *)
(*                                                                         *)
(* A flag value is the sequence of its characters.                         *)
(***************************************************************************)
MaxFlagLen == 3
MaxFlags == 2
MaxArgs == 2
FlagChars == {"a", "1", "="}
\* the values of --label-matcher
FlagLists == SeqsUpTo(SeqsUpTo(FlagChars, MaxFlagLen), MaxFlags)
\* the values of --format
Formats ==
    { <<"p", "r", "o", "m", "q", "l">>, <<"l", "o", "g", "q", "l">>,
      <<"L", "o", "g", "Q", "L">>, <<"L", "O", "G", "Q", "L">>,
      <<"P", "r", "o", "m", "Q", "L">>, <<"l", "o", "k", "i">>,
      <<"l", "o", "g", "q", "l", "x">>, <<>> }
Commands == {"transform", "validate-rules", "validate-config"}

\* unicode.ToLower on the letters in use
LowerRune(c) ==
    CASE c = "L" -> "l" [] c = "O" -> "o" [] c = "G" -> "g" [] c = "Q" -> "q"
      [] c = "P" -> "p" [] OTHER -> c
\* strings.ToLower
ToLower(str) == [i \in DOMAIN str |-> LowerRune(str[i])]

\* strings.IndexByte, counted from 1; 0 when c is not in str
IndexByte(str, c) ==
    IF \E i \in DOMAIN str : str[i] = c
    THEN Min({i \in DOMAIN str : str[i] = c})
    ELSE 0

\* a split at the first separator only
splitFirst(str, sep) ==
    IF IndexByte(str, sep) = 0 THEN <<str>>
    ELSE << SubSeq(str, 1, IndexByte(str, sep) - 1),
            SubSeq(str, IndexByte(str, sep) + 1, Len(str)) >>

\* strings.Split with a separator of one character
RECURSIVE Split(_, _)
Split(str, sep) ==
    IF IndexByte(str, sep) = 0 THEN <<str>>
    ELSE <<SubSeq(str, 1, IndexByte(str, sep) - 1)>>
         \o Split(SubSeq(str, IndexByte(str, sep) + 1, Len(str)), sep)

ErrMalformed == "malformed label injector"
NoInj == [called |-> FALSE, m |-> EmptyMap, isnil |-> TRUE, err |-> "nil"]

\* GetLabelMatchers: the loop over the flags from index i on
RECURSIVE getLabelMatchersFrom(_, _, _)
getLabelMatchersFrom(flags, i, m) ==
    IF i > Len(flags)
    THEN [called |-> TRUE, m |-> m, isnil |-> FALSE, err |-> "nil"]
    ELSE Bind(Split(flags[i], "="), LAMBDA parts :
             IF Len(parts) # 2
             THEN [called |-> TRUE, m |-> EmptyMap, isnil |-> TRUE,
                   err |-> ErrMalformed]
             ELSE getLabelMatchersFrom(flags, i + 1,
                                       (parts[1] :> parts[2]) @@ m))

\* tool.GetLabelMatchers
GetLabelMatchers(flags) == getLabelMatchersFrom(flags, 1, EmptyMap)

\* the keys of the context: a key is a value with its dynamic type
implKey == [type |-> "contextKey", s |-> "impl"]
StringKey(str) == [type |-> "string", s |-> str]
\* &tool.PromQL{} and &tool.LogQL{}
PromQLChecker == [type |-> "*tool.PromQL"]
LogQLChecker == [type |-> "*tool.LogQL"]

\* context.WithValue
WithValue(parent, key, val) == <<[key |-> key, val |-> val]>> \o parent

\* Context.Value: the value of the nearest equal key; nil without one
RECURSIVE Value(_, _)
Value(c, key) ==
    IF c = <<>> THEN Nil
    ELSE IF Head(c).key = key THEN Head(c).val
    ELSE Value(Tail(c), key)

\* v.(tool.Checker): the assertion fails on nil
IsChecker(v) == v \in {PromQLChecker, LogQLChecker}

\* the program is started with a command line; c.Context is
\* context.Background()
InitCli ==
    /\ cli \in [command : Commands, format : Formats, flags : FlagLists,
                nargs : 0..MaxArgs]
    /\ cli.command # "transform" => cli.flags = <<>>
    /\ ctx = <<>>
    /\ mpc = "before"
    /\ impl = Nil
    /\ inj = NoInj
    /\ TransformIdle /\ RulesIdle /\ ThreadsIdle /\ BuilderIdle /\ SharedIdle

\* app.Before
Before ==
    /\ mpc = "before"
    /\ ctx' = Bind(ToLower(cli.format), LAMBDA me :
                 CASE me = <<"p", "r", "o", "m", "q", "l">> ->
                          WithValue(ctx, implKey, PromQLChecker)
                   [] me = <<"l", "o", "g", "q", "l">> ->
                          WithValue(ctx, implKey, LogQLChecker)
                   [] OTHER -> WithValue(ctx, implKey, PromQLChecker))
    /\ mpc' = "action"
    /\ UNCHANGED <<cli, impl, inj, tvars, rvars, cvars, bvars, svars>>

\* the action of transform, up to the call of Transform
TransformAction ==
    /\ mpc = "action" /\ cli.command = "transform"
    /\ IF cli.nargs # 1
       THEN mpc' = "fatal" /\ UNCHANGED <<impl, inj>>
       ELSE \E r \in {GetLabelMatchers(cli.flags)} :
                /\ inj' = r
                /\ IF r.err # "nil"
                   THEN mpc' = "fatal" /\ UNCHANGED impl
                   ELSE \E v \in {Value(ctx, StringKey("impl"))} :
                            /\ impl' = v
                            /\ mpc' = IF IsChecker(v) THEN "called" ELSE "panic"
    /\ UNCHANGED <<cli, ctx, tvars, rvars, cvars, bvars, svars>>

\* the action of validate-rules, up to the first ValidateRules
ValidateRulesAction ==
    /\ mpc = "action" /\ cli.command = "validate-rules"
    /\ IF cli.nargs < 1
       THEN mpc' = "fatal" /\ UNCHANGED impl
       ELSE \E v \in {Value(ctx, StringKey("impl"))} :
                /\ impl' = v
                /\ mpc' = IF IsChecker(v) THEN "called" ELSE "panic"
    /\ UNCHANGED <<cli, ctx, inj, tvars, rvars, cvars, bvars, svars>>

\* the action of validate-config, up to the first ValidateConfig
ValidateConfigAction ==
    /\ mpc = "action" /\ cli.command = "validate-config"
    /\ IF cli.nargs < 1
       THEN mpc' = "fatal" /\ UNCHANGED impl
       ELSE \E v \in {Value(ctx, StringKey("impl"))} :
                /\ impl' = v
                /\ mpc' = IF IsChecker(v) THEN "called" ELSE "panic"
    /\ UNCHANGED <<cli, ctx, inj, tvars, rvars, cvars, bvars, svars>>

NextCli ==
    Before \/ TransformAction \/ ValidateRulesAction \/ ValidateConfigAction

SpecCli == InitCli /\ [][NextCli]_vars

\* the flag values of one call of GetLabelMatchers
InitMatchers ==
    /\ cli \in [command : {"transform"}, format : {<<>>}, flags : FlagLists,
                nargs : {1}]
    /\ ctx = <<>>
    /\ mpc = "flags"
    /\ impl = Nil
    /\ inj = NoInj
    /\ TransformIdle /\ RulesIdle /\ ThreadsIdle /\ BuilderIdle /\ SharedIdle

\* a call of tool.GetLabelMatchers
CallGetLabelMatchers ==
    /\ mpc = "flags"
    /\ inj' = GetLabelMatchers(cli.flags)
    /\ mpc' = "done"
    /\ UNCHANGED <<cli, ctx, impl, tvars, rvars, cvars, bvars, svars>>

SpecMatchers == InitMatchers /\ [][CallGetLabelMatchers]_vars

(***************************************************************************)
(* Properties of the LabelsBuilder                                         *)
(***************************************************************************)
\* C20: whatever Set, Del and Reset have been called, Get(n) returns
\* (v, true) when the last operation on n since the last Reset was
\* Set(n, v), ("", false) when it was Del(n), even for a name of the base
\* labels, and the value of the base labels when there was none; add never
\* holds two labels of one name, no operation fails, and after Reset add
\* and del are empty.
C20_BuilderGet ==
    /\ ~panicked
    /\ \A i, j \in 1..add.len : add.arr[i].Name = add.arr[j].Name => i = j
    /\ last = NoHistory => (add.len = 0 /\ del = <<>>)
    /\ got.called =>
           CASE last[got.key].op = "set" ->
                    got.val = last[got.key].v /\ got.ok
             [] last[got.key].op = "del" ->
                    got.val = "" /\ ~got.ok
             [] OTHER ->
                    /\ got.val = BaseGet(base, got.key)
                    /\ got.ok = (got.key \in DOMAIN base)

\* Get has returned the value of a Set that came after a Del of the same
\* name, a name the base labels have; add has held another label before
C20_Witness ==
    /\ got.called /\ got.ok
    /\ last[got.key].op = "set"
    /\ got.key \in DOMAIN base
    /\ \E j \in 1..Len(del) : del[j] = got.key
    /\ Len(add.arr) > add.len

MapAgreesOnLabelNames ==
    mapped.called =>
        \A n \in LabelNames :
            /\ n \in DOMAIN mapped.m <=> Get(add, del, base, n).ok
            /\ n \in DOMAIN mapped.m => mapped.m[n] = Get(add, del, base, n).val

(***************************************************************************)
(* Further properties of Transform                                         *)
(***************************************************************************)
\* the texts between "[" and "]" from position `from` on, in order
RECURSIVE RangeTexts(_, _)
RangeTexts(q, from) ==
    Bind(IndexFrom(q, <<P("[")>>, from), LAMBDA open :
        IF open = 0 THEN <<>>
        ELSE Bind(IndexFrom(q, <<P("]")>>, open), LAMBDA close :
                 IF close = 0 THEN <<>>
                 ELSE <<SubSeq(q, open + 1, close - 1)>>
                      \o RangeTexts(q, close + 1)))

\* C22: when Transform succeeds, every range bracket that holds a variable
\* in the query holds the same variable, and nothing else, in the returned
\* string, however many duration variables the query has.
C22_DurationVariablesRestored ==
    Succeeded =>
        Bind(RangeTexts(arg, 1), LAMBDA asked :
        Bind(RangeTexts(result, 1), LAMBDA returned :
            /\ Len(returned) = Len(asked)
            /\ \A i \in 1..Len(asked) :
                   (asked[i] # <<>> /\ varPattern(asked[i][1]))
                       => returned[i] = asked[i]))

\* the same for the calls whose table has at most one numeric placeholder
OneNumericPlaceholderRestored ==
    Cardinality({ph \in DOMAIN occurrences : ScansAsInt(ph)}) <= 1
        => C22_DurationVariablesRestored

\* a lexeme of a name: \w or a variable
IsNameTok(t) == IsWordTok(t) \/ varPattern(t)

\* index just after the maximal run of name lexemes that starts at i
RECURSIVE NameRunEnd(_, _)
NameRunEnd(s, i) ==
    IF i <= Len(s) /\ IsNameTok(s[i]) THEN NameRunEnd(s, i + 1) ELSE i

\* a variable is the first lexeme of the name of a selector: the name is
\* followed by the matchers or by the range
LeadsSelectorName(q) ==
    \E i \in 1..Len(q) :
        /\ varPattern(q[i])
        /\ i = 1 \/ ~IsNameTok(q[i - 1])
        /\ ~InsideQuotes(q, i)
        /\ Bind(NameRunEnd(q, i), LAMBDA e :
               e <= Len(q) /\ q[e] \in {P("{"), P("[")})

\* C23: a PromQL query in which a variable is the first lexeme of the name
\* of a selector is rejected by the structural check: Transform returns
\* the error of the check and Encode is not run.
C23_LeadingVariableRejected ==
    (dialect = "promql" /\ pc # "start" /\ LeadsSelectorName(arg))
        => /\ pc = "done"
           /\ err \in {ErrFunctionName, ErrGrouping, ErrMetricStart}
           /\ trace = <<"check">>

\* the same for the variables that stand at the start of the query, behind
\* a comma or behind an opening parenthesis, directly in front of "{"
WholeNameVariableRejected ==
    (dialect = "promql" /\ pc # "start" /\ metricNameStartPattern(arg))
        => /\ pc = "done"
           /\ err \in {ErrFunctionName, ErrGrouping, ErrMetricStart}
           /\ trace = <<"check">>

\* the bare variables the label-value pattern matches in q, each with the
\* delimiter that ends its match
BareValueMatches(q) ==
    {m \in {LabelValueMatch(q, i) : i \in 1..Len(q)} : m.ok /\ ~m.wasQuoted}

\* the text with every placeholder replaced by the variable it stands for
\* and without the double quotes
Unencoded(text, replacements) ==
    Bind(SelectSeq(text, LAMBDA t : t # Quote), LAMBDA kept :
        [i \in 1..Len(kept) |->
            IF kept[i] \in DOMAIN replacements THEN replacements[kept[i]]
            ELSE kept[i]])

\* the delimiter of every bare variable in D stands behind the quoted
\* placeholder of the variable in the encoded text
DelimitersKept(D) ==
    \A m \in BareValueMatches(arg) :
        arg[m.last] \in D =>
            \E j \in 1..Len(processed) - 3 :
                SubSeq(processed, j, j + 3) =
                    <<Quote, table.variableToPlaceholder[arg[m.var]], Quote,
                      arg[m.last]>>

\* C27: after the LogQL Encode, the delimiter that ends a bare variable in
\* a matcher value (white space, ",", "}" or "]") stands directly behind
\* the quoted placeholder, and the encoded text is the query but for the
\* placeholders and the double quotes.
C27_DelimiterKept ==
    (dialect = "logql" /\ pc = "encoded") =>
        /\ DelimitersKept({Sp, Nl, P(","), P("}"), P("]")})
        /\ Unencoded(processed, occurrences) = SelectSeq(arg, LAMBDA t : t # Quote)

\* the same for the delimiters the replacement keeps
SpaceCommaBraceKept ==
    (dialect = "logql" /\ pc = "encoded") => DelimitersKept({Sp, P(","), P("}")})

\* C28: when the calls on one Checker value are made one after the other,
\* each call returns what it returns when run alone on its query and its
\* injection set and uses no expression, injection set or sorted name list
\* an earlier call has left on the receiver, whether that call failed or
\* not; and no step changes an argument of a call: the injection map the
\* caller passed stays as it was.
C28_ReuseIndependent ==
    /\ [](\A t \in Threads : TouchesOwn(t) /\ ReturnsAsAlone(t))
    /\ [][\A t \in Threads :
              th'[t].matchers = th[t].matchers /\ th'[t].arg = th[t].arg]_vars

\* two calls on one Checker value, with different queries and different
\* injection sets, have both returned without an error
C28_Witness ==
    /\ th[1].r = th[2].r
    /\ th[1].arg # th[2].arg
    /\ th[1].matchers # th[2].matchers
    /\ \A t \in Threads : th[t].pc = "done" /\ th[t].err = ErrNone

\* a call on a Checker value has returned without an error after a call
\* on the same value that failed
ReuseAfterFailure ==
    /\ th[1].r = th[2].r
    /\ th[1].pc = "done" /\ th[1].err # ErrNone
    /\ th[2].pc = "done" /\ th[2].err = ErrNone

\* C29: the LabelsBuilders ForLabels has made from one BaseLabelsBuilder
\* see one add list, one del list and one error value: whichever builder
\* the Set, Del, SetErr and Reset calls went through, on every builder
\* GetErr returns the error last set, Get(n) and Map report the value last
\* set for n, report n absent when n was last deleted, and report the
\* builder's own base label when nothing is pending for n; after a Reset
\* through any builder nothing is pending on any of them; and no operation
\* changes the base labels of a builder.
C29_BuildersShareChanges ==
    /\ [](\A c \in 1..Len(lb) :
            /\ GetErr(lb[c]) = herr.e
            /\ (ErrorLabel \in DOMAIN BuilderMap(lb[c])) = (herr.e # "")
            /\ herr.e # "" => BuilderMap(lb[c])[ErrorLabel] = herr.e
            /\ \A n \in LabelNames :
                 Bind(BuilderGet(lb[c], n), LAMBDA g :
                 Bind(BuilderMap(lb[c]), LAMBDA m :
                   CASE hist[n].op = "set" ->
                          /\ g.val = hist[n].v /\ g.ok
                          /\ n \in DOMAIN m /\ m[n] = hist[n].v
                     [] hist[n].op = "del" ->
                          /\ g.val = "" /\ ~g.ok
                          /\ n \notin DOMAIN m
                     [] OTHER ->
                          /\ g.val = BaseGet(lb[c].base, n)
                          /\ g.ok = (n \in DOMAIN lb[c].base)
                          /\ (n \in DOMAIN m) = (n \in DOMAIN lb[c].base)
                          /\ n \in DOMAIN m => m[n] = lb[c].base[n])))
    /\ [][\A c \in 1..Len(lb) : lb'[c].base = lb[c].base]_vars

\* two builders with different base labels: a Set through the first is
\* what Get returns on the second, for a name the second has a base label
\* of, while the error both report was set through the second
C29_Witness ==
    /\ Len(lb) = NumBuilders
    /\ lb[1].base # lb[2].base
    /\ herr.e # "" /\ herr.by = 2 /\ GetErr(lb[1]) = herr.e
    /\ \E n \in DOMAIN lb[2].base :
           /\ hist[n].op = "set" /\ hist[n].by = 1
           /\ hist[n].v # lb[2].base[n]
           /\ BuilderGet(lb[2], n).val = hist[n].v

\* a Reset through the second builder has cleared what was set through the
\* first; the builders report their own base labels, which differ
ResetClearsAll ==
    /\ Len(lb) = NumBuilders
    /\ lb[1].base # lb[2].base
    /\ Embedded(lb[1]).add.arr # <<>>
    /\ \A n \in LabelNames : hist[n].op = "none" /\ hist[n].by = 2
    /\ \A c \in 1..Len(lb) : BuilderMap(lb[c]) = lb[c].base

\* the spellings of logql, whatever the case of the letters
LogQLSpellings ==
    {f \in Formats :
        /\ Len(f) = 5
        /\ f[1] \in {"l", "L"} /\ f[2] \in {"o", "O"} /\ f[3] \in {"g", "G"}
        /\ f[4] \in {"q", "Q"} /\ f[5] \in {"l", "L"}}

\* C26: for every subcommand, the action that gets as far as the context
\* lookup finds the Checker the Before hook has stored: the lookup never
\* comes back empty, so the type assertion does not fail, and the Checker
\* is the LogQL one iff --format spells logql in whatever case, the PromQL
\* one otherwise.
C26_ActionFindsStoredChecker ==
    /\ mpc # "panic"
    /\ mpc = "called" =>
           impl = IF cli.format \in LogQLSpellings
                  THEN LogQLChecker ELSE PromQLChecker

\* what the Before hook stores under its key is the LogQL checker iff
\* --format spells logql in whatever case, the PromQL checker otherwise
BeforeStoresChecker ==
    mpc # "before" =>
        Value(ctx, implKey) = IF cli.format \in LogQLSpellings
                              THEN LogQLChecker ELSE PromQLChecker

\* no action of any subcommand gets to the call of its Checker
NoActionCallsChecker == mpc # "called"

\* the number of "=" in a flag
CountEquals(flag) == Cardinality({i \in DOMAIN flag : flag[i] = "="})
\* the text before and the text behind the "=" of a flag that has one
NameOf(flag) == SubSeq(flag, 1, (CHOOSE i \in DOMAIN flag : flag[i] = "=") - 1)
ValueOf(flag) ==
    SubSeq(flag, (CHOOSE i \in DOMAIN flag : flag[i] = "=") + 1, Len(flag))

\* C30: GetLabelMatchers returns nil and the error "malformed label
\* injector" when some flag has no "=" or more than one; otherwise it
\* returns no error and a map whose keys are the names of the flags, each
\* with the value of the last flag of that name; an empty name and an
\* empty value are taken as they are.
C30_GetLabelMatchers ==
    inj.called =>
        IF \E i \in DOMAIN cli.flags : CountEquals(cli.flags[i]) # 1
        THEN inj.isnil /\ inj.err = ErrMalformed
        ELSE /\ ~inj.isnil /\ inj.err = "nil"
             /\ DOMAIN inj.m = {NameOf(cli.flags[i]) : i \in DOMAIN cli.flags}
             /\ \A i \in DOMAIN cli.flags :
                    (\A j \in DOMAIN cli.flags :
                         NameOf(cli.flags[j]) = NameOf(cli.flags[i]) => j <= i)
                    => inj.m[NameOf(cli.flags[i])] = ValueOf(cli.flags[i])

\* two flags of one name with different values: the map has the value of
\* the second
C30_Witness ==
    /\ inj.called /\ ~inj.isnil
    /\ Len(cli.flags) = 2
    /\ NameOf(cli.flags[1]) = NameOf(cli.flags[2])
    /\ ValueOf(cli.flags[1]) # ValueOf(cli.flags[2])
    /\ inj.m[NameOf(cli.flags[2])] = ValueOf(cli.flags[2])

\* the flag "=" has given the empty name the empty value
EmptyNameAccepted ==
    /\ inj.called /\ inj.err = "nil"
    /\ cli.flags = << <<"=">> >>
    /\ inj.m = (<<>> :> <<>>)

\* a flag with two "=" has been refused
TwoEqualsRefused ==
    /\ inj.called /\ inj.err = ErrMalformed
    /\ cli.flags = << <<"a", "=", "=">> >>

(***************************************************************************)
(* Further properties of rule validation                                   *)
(***************************************************************************)
\* the defects of a rule that C24 lists
ListedDefect(r) ==
    \/ r.Record # "" /\ r.Alert # ""
    \/ r.Record = "" /\ r.Alert = ""
    \/ r.Expr = ExprEmpty
    \/ /\ r.Record # ""
       /\ \/ DOMAIN r.Annotations # {}
          \/ r.For # 0
          \/ r.Record \in InvalidMetricNames

\* the errors of ValidateGroups about the name of a group
GroupNameMessages ==
    {"Groupname must not be empty", "is repeated in the same file"}

RuleName(r) == IF r.Record # "" THEN r.Record ELSE r.Alert

\* the rules whose expr validateRuleNode hands to the parser, which fails
ExprFailsToParse(r) ==
    /\ (r.Record # "") # (r.Alert # "")
    /\ r.Expr # ExprEmpty
    /\ ~LogParseExpr(r.Expr).ok

\* C25: for every rule whose expr fails to parse, the error returned has an
\* error that names the group of the rule and the rule: its record name if
\* it is a recording rule, its alert name if it is an alerting rule.
C25_ParseErrorNamesRule ==
    Validated =>
        \A p \in RulesOf(groups) :
            LET g == groups[p[1] + 1]
                r == g.Rules[p[2] + 1]
            IN  ExprFailsToParse(r) =>
                    \E i \in 1..Len(rerr.errs) :
                        /\ rerr.errs[i].msg = "could not parse expression"
                        /\ rerr.errs[i].arg = g.Name
                        /\ rerr.errs[i].record = RuleName(r)

\* the same without the name of the rule
ParseErrorNamesGroup ==
    Validated =>
        \A p \in RulesOf(groups) :
            LET g == groups[p[1] + 1]
                r == g.Rules[p[2] + 1]
            IN  ExprFailsToParse(r) =>
                    \E i \in 1..Len(rerr.errs) :
                        /\ rerr.errs[i].msg = "could not parse expression"
                        /\ rerr.errs[i].arg = g.Name

=============================================================================
